---- MODULE Spec2Model ----
(***************************************************************************)
(* Model of the data-acquisition layer of investment-buddy:                *)
(*   - makeAPIRequest: the HTTP retry client (429 backoff loop);           *)
(*   - GetInsiderTrades / GetCompanyNews: the paginated aggregators that   *)
(*     drive makeAPIRequest once per page and walk backward in time.       *)
(*                                                                         *)
(* Dates are strings in the program and are compared as strings.  A date   *)
(* string is either "YYYY-MM-DD" or "YYYY-MM-DDT<time>".  It is encoded    *)
(* here as the integer  2 * day + t : t = 0 is the date-only string of    *)
(* that day, t = 1 is the same day followed by "T" and a time of day.      *)
(* The integer order is the lexicographic string order (a date-only        *)
(* string is a proper prefix of, hence smaller than, the string of that    *)
(* day that carries a time).                                               *)
(*                                                                         *)
(* PricesToDataFrame is a pure function; it is run under SpecPrices on     *)
(* price lists drawn from PriceLists.  A Price.Time string is modelled by  *)
(* what the two time.Parse calls make of it: an RFC 3339 string denotes    *)
(* an instant (half days 0, 1, 2, ...), a date-only string denotes the     *)
(* midnight of its day, anything else does not parse.                      *)
(*                                                                         *)
(* LineItem.UnmarshalJSON is run under SpecLineItem on JSON objects given  *)
(* as their members in document order.  encoding/json is modelled by what  *)
(* it does with them: a member sets the struct field whose name equals its *)
(* key exactly or, failing that, ignoring case; later members override     *)
(* earlier ones; null leaves a string field alone; a number for a string   *)
(* field is a type error; in a map[string]any a number becomes a float64.  *)
(*                                                                         *)
(* The financial-metrics tool applies its own defaults and calls           *)
(* GetFinancialMetrics; it is run under SpecTool.  SpecNet runs the fetch  *)
(* functions with and without an API key under a transport that logs every *)
(* request and with the state of the response body tracked.  SpecTwice     *)
(* makes a call a second time against a server that gives its answers      *)
(* again.                                                                  *)
(***************************************************************************)
EXTENDS Integers, Sequences, FiniteSets, TLC

\* ---------------------------------------------------------------- bounds
DayCount == 3          \* calendar days 0 .. DayCount-1
MaxRecords == 3        \* records the server sends during one walk, in total
MaxDirectRetries == 4  \* largest maxRetries of a direct makeAPIRequest call
PriceDays == 2         \* days the Price.Time strings range over
MaxPrices == 3         \* longest price list given to PricesToDataFrame
MaxMembers == 3        \* most members of a line-item JSON object
MaxMetrics == 2        \* most metrics records in one analysis request

\* ------------------------------------------------------ program constants
RateLimited == 429
StatusOK == 200
BaseDelay == 60
DelayStep == 30
FetchRetries == 3
DefaultPageLimit == 1000
DefaultRecordLimit == 10
ToolDefaultLimit == 5
NewsToolDefault == 10
NewsToolMax == 20
\* thresholds of the fundamentals score; ratios are counted in hundredths
StrongROE == 15        \* 0.15
LowDebt == 50          \* 0.5
StrongMargin == 15     \* 0.15
GoodLiquidity == 150   \* 1.5
FairPE == 2500         \* 25
FairPB == 300          \* 3

\* ------------------------------------------------------------ value sets
Codes == 0 .. (2 * DayCount - 1)
DateOnly == {c \in Codes : c % 2 = 0}
Statuses == {200, 404, 429, 500}
Limits == {0, 1, 2}
Walkers == {"GetInsiderTrades", "GetCompanyNews"}
Fetchers == {"GetPrices", "GetFinancialMetrics", "SearchLineItems"}
Tickers == {"AAPL", "MSFT"}
Periods == {"", "ttm", "annual"}

\* Response bodies of a non-200 answer.  The body of a 200 answer is drawn
\* when it is read and decoded; the response carries "" for it.
ErrorBodies == {"", "Not found"}
BodiesOf(status) == IF status = StatusOK THEN {""} ELSE ErrorBodies

\* What a decoded 200 body of the one-request fetch functions holds: each
\* record is given by its market_cap.
RecordLists == {<<>>, <<0>>, <<3>>, <<3, 8>>, <<8, 3>>, <<0, 8>>}

\* A JSON body has its list key or not; without it json.Unmarshal leaves the
\* slice nil, which is a list of length 0, so only the empty list can come
\* out of a body without the key.
ListKeys(rs) == IF Len(rs) = 0 THEN {"present", "absent"} ELSE {"present"}
CapValues == {0, 3, 8}

RECURSIVE SeqsUpTo(_, _)
SeqsUpTo(S, n) ==
    IF n = 0 THEN {<<>>}
    ELSE LET shorter == SeqsUpTo(S, n - 1)
         IN  shorter \cup {Append(s, x) : s \in {t \in shorter : Len(t) = n - 1}, x \in S}

\* PagesUpTo[n]: the record lists of at most n records.
PagesUpTo == [n \in 0 .. MaxRecords |-> SeqsUpTo(Codes, n)]

RECURSIVE SumLen(_)
SumLen(ps) == IF ps = <<>> THEN 0 ELSE Len(Head(ps)) + SumLen(Tail(ps))

\* The lists the server can still put in a page after the pages ps, when it
\* holds records of the dates h.
PagesAfter(ps, h) ==
    IF h = Codes THEN PagesUpTo[MaxRecords - SumLen(ps)]
    ELSE SeqsUpTo(h, MaxRecords - SumLen(ps))

VARIABLES
    caller,          \* which function is running
    pc,              \* position in it
    maxRetries,      \* makeAPIRequest argument
    attempt,         \* makeAPIRequest loop variable
    outcomes,        \* history: what cli.Do gave on each attempt of this call
    sleeps,          \* history: the delays slept during this call
    resp,            \* makeAPIRequest result: <<>> (nil) or <<[status]>>
    err,             \* makeAPIRequest result: "" (nil) or an error
    limit,           \* paging limit (argument, then defaulted)
    startDate,       \* <<>> (nil pointer) or <<date>>
    endDate,         \* caller's end date
    startDateStr,    \* local of the aggregators
    currentEndDate,  \* the cursor
    all,             \* allTrades / allNews
    urls,            \* history: the page requests built so far
    pages,           \* history: the lists decoded so far
    result,          \* what the aggregator returned
    prices,          \* PricesToDataFrame argument
    df,              \* PricesToDataFrame result: <<>> (nil) or <<table>>
    dfErr,           \* PricesToDataFrame result: "" (nil) or an error
    data,            \* UnmarshalJSON argument: the members of the JSON object
    li,              \* the LineItem being decoded into
    liErr,           \* UnmarshalJSON result: "" (nil) or an error
    ticker,          \* ticker argument of the fetch functions
    period,          \* period argument (then defaulted)
    today,           \* GetMarketCap: time.Now() as a date
    outer,           \* "GetMarketCap" while it runs GetFinancialMetrics, else ""
    log,             \* history: what GetMarketCap printed about failed fetches
    marketCap,       \* GetMarketCap result: <<>> or <<[value, err]>>
    req,             \* the metrics request as its client made it
    tool,            \* the tool that runs: its name, output, file saved, error returned
    apiKey,          \* the variadic apiKey argument: <<>> or <<key>>
    env,             \* FINANCIAL_DATASETS_API_KEY in the environment ("" if unset)
    headers,         \* history: the X-API-KEY header of each request, <<>> if none
    sent,            \* what the transport logged, <<answers>>; <<>> if it keeps no log
    body,            \* resp.Body of the latest response: none, open, closed, ...
    listKey,         \* history: had the body decoded last its list key (present, absent)
    held,            \* the dates of the records the server holds
    first            \* the call made before this one: <<>> or <<what it asked and got>>

vars == <<caller, pc, maxRetries, attempt, outcomes, sleeps, resp, err,
          limit, startDate, endDate, startDateStr, currentEndDate,
          all, urls, pages, result, prices, df, dfErr, data, li, liErr,
          ticker, period, today, outer, log, marketCap, req, tool,
          apiKey, env, headers, sent, body, listKey, held, first>>

retryVars == <<maxRetries, attempt, outcomes, sleeps, resp, err, sent>>
givenVars == <<apiKey, env, held, first>>
frameVars == <<prices, df, dfErr>>
itemVars == <<data, li, liErr>>
capVars == <<ticker, period, today, outer, log, marketCap>>
toolVars == <<req, tool>>
argVars == <<caller, startDate, endDate, frameVars, itemVars, capVars, toolVars, givenVars>>
walkVars == <<limit, startDateStr, currentEndDate, all, urls, headers, pages, listKey, result>>

\* ------------------------------------------------------- pure helpers
\* Variant: the delay doubles from attempt to attempt.
DelayDoubling(a) == IF a = 0 THEN BaseDelay ELSE 2 * BaseDelay * a

\* makeAPIRequest: delay := 60 + (30 * attempt)
Delay(a) == BaseDelay + (DelayStep * a)

\* Variant: server errors are retried like rate limiting.
ShouldRetryServerErrors(status, a, mr) == status >= RateLimited /\ a < mr

\* makeAPIRequest: resp.StatusCode == 429 && attempt < maxRetries
ShouldRetry(status, a, mr) == status = RateLimited /\ a < mr

\* if limit == 0 { limit = 1000 }
DefaultLimit(l) == IF l = 0 THEN DefaultPageLimit ELSE l

\* startDateStr := "none"; if startDate == nil { startDateStr = now -/+ 30d }
StartDateStr(c, sd) ==
    IF sd = <<>>
    THEN (IF c = "GetInsiderTrades" THEN "now-30d" ELSE "now+30d")
    ELSE "none"

\* The query of one page request.
PageURL(c, cursor, sd, sds, l) ==
    [endpoint |-> IF c = "GetInsiderTrades" THEN "/insider-trades/" ELSE "/news/",
     lte |-> cursor,
     gte |-> IF sd # <<>> THEN <<sds>> ELSE <<>>,
     limit |-> l]

\* minDate := page[0].date; for each record: if date < minDate { minDate = date }
RECURSIVE MinLoop(_, _, _)
MinLoop(page, i, m) ==
    IF i > Len(page) THEN m
    ELSE MinLoop(page, i + 1, IF page[i] < m THEN page[i] ELSE m)

MinDate(page) == MinLoop(page, 1, page[1])

\* Variant: the time of day is kept in the cursor.
StripTimeKept(d) == d

\* if strings.Contains(minDate, "T") { minDate = strings.Split(minDate, "T")[0] }
StripTime(d) == IF d % 2 # 0 THEN d - (d % 2) ELSE d

\* Variant: the cursor is taken from the first record of the page.
NextCursorFirst(page) == StripTime(page[1])

NextCursor(page) == StripTime(MinDate(page))

\* Variant: a short page does not end a bounded walk.
StopAfterPageUnboundedOnly(sd, n, l) == sd = <<>>

\* Variant: an unbounded walk goes on after a full page.
StopAfterShortPage(sd, n, l) == n < l

\* if startDate == nil || len(page) < limit { break }
StopAfterPage(sd, n, l) == sd = <<>> \/ n < l

\* Variant: the walk stops only once the cursor is before the start date.
ReachedStartStrict(sd, cursor) == sd # <<>> /\ cursor < sd[1]

\* if startDate != nil && currentEndDate <= *startDate { break }
ReachedStart(sd, cursor) == sd # <<>> /\ cursor <= sd[1]

\* Variant: the new page is put in front of the accumulated records.
AppendPageFront(acc, page) == page \o acc

\* allTrades = append(allTrades, page...)
AppendPage(acc, page) == acc \o page

\* No tool runs.  out is the output the handler returns, <<>> before it
\* returns; err is the error it returns with it, "" for nil.
NoTool == [name |-> "", out |-> <<>>, saved |-> FALSE, err |-> ""]

\* No key, no request sent, no response received; the transport keeps
\* no log; the server holds records of every date; no
\* call was made before.
NetIdle ==
    /\ apiKey = <<>>
    /\ env = ""
    /\ headers = <<>>
    /\ sent = <<>>
    /\ body = "none"
    /\ listKey = ""
    /\ held = Codes
    /\ first = <<>>

\* ------------------------------------------------------------------ Init
Init ==
    /\ caller \in Walkers \cup {"makeAPIRequest"} \cup Fetchers \cup {"GetMarketCap"}
    /\ IF caller = "makeAPIRequest"
       THEN /\ pc = "attempt"
            /\ maxRetries \in (-1) .. MaxDirectRetries
            /\ limit = 0
            /\ startDate = <<>>
            /\ endDate = 0
            /\ ticker = ""
            /\ period = ""
            /\ today = 0
       ELSE IF caller \in Walkers
       THEN /\ pc = "entry"
            /\ maxRetries = FetchRetries
            /\ limit \in Limits
            /\ startDate \in {<<>>} \cup {<<d>> : d \in DateOnly}
            /\ endDate \in DateOnly
            /\ ticker \in IF startDate = <<>> THEN Tickers ELSE {"AAPL"}
            /\ period = ""
            /\ today = 0
       ELSE /\ pc = "call"
            /\ maxRetries = 0
            /\ limit \in IF caller \in {"GetFinancialMetrics", "SearchLineItems"}
                         THEN Limits ELSE {0}
            /\ period \in IF caller \in {"GetFinancialMetrics", "SearchLineItems"}
                          THEN Periods ELSE {""}
            /\ startDate \in IF caller = "GetPrices"
                             THEN {<<d>> : d \in DateOnly} ELSE {<<>>}
            /\ endDate \in DateOnly
            /\ ticker \in Tickers
            /\ today \in IF caller = "GetMarketCap" THEN DateOnly ELSE {0}
    /\ outer = ""
    /\ log = <<>>
    /\ marketCap = <<>>
    /\ req = [Symbol |-> "", Date |-> <<>>, Period |-> "", Limit |-> 0]
    /\ tool = NoTool
    /\ attempt = 0
    /\ outcomes = <<>>
    /\ sleeps = <<>>
    /\ resp = <<>>
    /\ err = ""
    /\ startDateStr = ""
    /\ currentEndDate = 0
    /\ all = <<>>
    /\ urls = <<>>
    /\ pages = <<>>
    /\ result = [records |-> <<>>, err |-> "", status |-> 0, ticker |-> "", body |-> ""]
    /\ prices = <<>>
    /\ df = <<>>
    /\ dfErr = ""
    /\ data = <<>>
    /\ li = [Ticker |-> "", ReportPeriod |-> "", Period |-> "", Currency |-> "", Data |-> <<>>]
    /\ liErr = ""
    /\ NetIdle

\* Variant: the environment value wins over the caller's key.
ResolvedKeyEnvFirst(k, e) == IF e # "" THEN e ELSE IF Len(k) > 0 THEN k[1] ELSE ""

\* if len(apiKey) > 0 && apiKey[0] != "" { key = apiKey[0] } else { key = os.Getenv(...) }
ResolvedKey(k, e) == IF Len(k) > 0 /\ k[1] # "" THEN k[1] ELSE e

\* if financialAPIKey != "" { headers["X-API-KEY"] = financialAPIKey }
Headers(k, e) == IF ResolvedKey(k, e) # "" THEN <<ResolvedKey(k, e)>> ELSE <<>>

\* A server that answers a second call as it answered the first: the answer
\* a, coming after the answers now, is the one the first call got there.
Replayed(before, now, a) == Len(now) < Len(before) => before[Len(now) + 1] = a
AnswersAgain(a) == IF first = <<>> THEN TRUE ELSE Replayed(first[1].sent, sent[1], a)
ListsAgain(page) == IF first = <<>> THEN TRUE ELSE Replayed(first[1].pages, pages, page)

\* cli.Do(req) gave the answer a: the transport logs it, if it keeps a log
Logged(lg, a) == IF lg = <<>> THEN lg ELSE <<Append(lg[1], a)>>

\* cli.Do gave a response: its body is open (and the one before it must not be)
Received(b) ==
    IF b \in {"leaked", "twice"} THEN b
    ELSE IF b = "open" THEN "leaked"
    ELSE "open"

\* Variant: the body is left open.
CloseSkipped(b) == b

\* resp.Body.Close()
Closed(b) ==
    IF b \in {"leaked", "twice"} THEN b
    ELSE IF b = "open" THEN "closed"
    ELSE "twice"

\* --------------------------------------------------------- makeAPIRequest
\* Where control goes when makeAPIRequest returns.
AfterReturn ==
    IF caller = "makeAPIRequest" THEN "done"
    ELSE IF caller \in Walkers THEN "returned"
    ELSE IF caller = "GetMarketCap" THEN "facts"
    ELSE "fetched"

\* The histories of a call end with the call when an aggregator made it.
Kept(h) == IF caller = "makeAPIRequest" THEN h ELSE <<>>

\* Variant: a failed cli.Do is retried after the backoff delay.
TransportErrorRetried ==
    /\ pc = "attempt"
    /\ attempt <= maxRetries
    /\ outcomes' = Append(outcomes, [ok |-> FALSE, status |-> 0])
    /\ sleeps' = Append(sleeps, BaseDelay)
    /\ attempt' = attempt + 1
    /\ UNCHANGED <<pc, maxRetries, resp, err>>
    /\ UNCHANGED argVars
    /\ UNCHANGED walkVars
    /\ AnswersAgain([ok |-> FALSE, status |-> 0, body |-> ""])
    /\ sent' = Logged(sent, [ok |-> FALSE, status |-> 0, body |-> ""])
    /\ UNCHANGED body

\* cli.Do fails: return nil, error
TransportError ==
    /\ pc = "attempt"
    /\ attempt <= maxRetries
    /\ outcomes' = Kept(Append(outcomes, [ok |-> FALSE, status |-> 0]))
    /\ sleeps' = Kept(sleeps)
    /\ resp' = <<>>
    /\ err' = "transport"
    /\ pc' = AfterReturn
    /\ attempt' = IF caller = "makeAPIRequest" THEN attempt ELSE 0
    /\ UNCHANGED maxRetries
    /\ UNCHANGED argVars
    /\ UNCHANGED walkVars
    /\ AnswersAgain([ok |-> FALSE, status |-> 0, body |-> ""])
    /\ sent' = Logged(sent, [ok |-> FALSE, status |-> 0, body |-> ""])
    /\ UNCHANGED body

\* Variant: a retry does not count as an attempt.
RetryAfter429Uncounted ==
    /\ pc = "attempt"
    /\ attempt <= maxRetries
    /\ \E s \in Statuses :
        /\ ShouldRetry(s, attempt, maxRetries)
        /\ outcomes' = Append(outcomes, [ok |-> TRUE, status |-> s])
        /\ AnswersAgain([ok |-> TRUE, status |-> s, body |-> ""])
        /\ sent' = Logged(sent, [ok |-> TRUE, status |-> s, body |-> ""])
    /\ sleeps' = Append(sleeps, Delay(attempt))
    /\ UNCHANGED <<pc, maxRetries, attempt, resp, err>>
    /\ UNCHANGED argVars
    /\ UNCHANGED walkVars
    /\ body' = Closed(Received(body))

\* 429 with retries left: close the body, sleep, next attempt
RetryAfter429 ==
    /\ pc = "attempt"
    /\ attempt <= maxRetries
    /\ \E s \in Statuses :
        /\ ShouldRetry(s, attempt, maxRetries)
        /\ outcomes' = Append(outcomes, [ok |-> TRUE, status |-> s])
        /\ AnswersAgain([ok |-> TRUE, status |-> s, body |-> ""])
        /\ sent' = Logged(sent, [ok |-> TRUE, status |-> s, body |-> ""])
    /\ sleeps' = Append(sleeps, Delay(attempt))
    /\ attempt' = attempt + 1
    /\ UNCHANGED <<pc, maxRetries, resp, err>>
    /\ UNCHANGED argVars
    /\ UNCHANGED walkVars
    /\ body' = Closed(Received(body))

\* any other case: return resp, nil
ReturnResponse ==
    /\ pc = "attempt"
    /\ attempt <= maxRetries
    /\ \E s \in Statuses :
        /\ ~ShouldRetry(s, attempt, maxRetries)
        /\ outcomes' = Kept(Append(outcomes, [ok |-> TRUE, status |-> s]))
        /\ \E b \in BodiesOf(s) :
            /\ resp' = <<[status |-> s, body |-> b]>>
            /\ AnswersAgain([ok |-> TRUE, status |-> s, body |-> b])
            /\ sent' = Logged(sent, [ok |-> TRUE, status |-> s, body |-> b])
    /\ sleeps' = Kept(sleeps)
    /\ err' = ""
    /\ pc' = AfterReturn
    /\ attempt' = IF caller = "makeAPIRequest" THEN attempt ELSE 0
    /\ UNCHANGED maxRetries
    /\ UNCHANGED argVars
    /\ UNCHANGED walkVars
    /\ body' = Received(body)

\* the loop ends without a return: return nil, "retries exhausted" error
Exhausted ==
    /\ pc = "attempt"
    /\ attempt > maxRetries
    /\ resp' = <<>>
    /\ err' = "exhausted"
    /\ pc' = AfterReturn
    /\ UNCHANGED <<maxRetries, attempt, outcomes, sleeps>>
    /\ UNCHANGED argVars
    /\ UNCHANGED walkVars
    /\ UNCHANGED <<sent, body>>

\* ------------------------------------- GetInsiderTrades / GetCompanyNews
\* Variant: the records gathered are kept from call to call.
EnterKeepingRecords ==
    /\ pc = "entry"
    /\ limit' = DefaultLimit(limit)
    /\ startDateStr' = StartDateStr(caller, startDate)
    /\ currentEndDate' = endDate
    /\ pc' = "loop"
    /\ UNCHANGED <<all, urls, headers, pages, listKey, result>>
    /\ UNCHANGED retryVars
    /\ UNCHANGED argVars
    /\ UNCHANGED body

\* function entry up to the for loop
Enter ==
    /\ pc = "entry"
    /\ limit' = DefaultLimit(limit)
    /\ startDateStr' = StartDateStr(caller, startDate)
    /\ all' = <<>>
    /\ currentEndDate' = endDate
    /\ pc' = "loop"
    /\ UNCHANGED <<urls, headers, pages, listKey, result>>
    /\ UNCHANGED retryVars
    /\ UNCHANGED argVars
    /\ UNCHANGED body

\* Variant: a page request gets one retry more.
StartPageLargerBudget ==
    /\ pc = "loop"
    /\ urls' = Append(urls, PageURL(caller, currentEndDate, startDate, startDateStr, limit))
    /\ maxRetries' = FetchRetries + 1
    /\ attempt' = 0
    /\ outcomes' = <<>>
    /\ sleeps' = <<>>
    /\ resp' = <<>>
    /\ err' = ""
    /\ pc' = "attempt"
    /\ UNCHANGED <<limit, startDateStr, currentEndDate, all, pages, listKey, result>>
    /\ UNCHANGED argVars
    /\ headers' = Append(headers, Headers(apiKey, env))
    /\ UNCHANGED <<sent, body>>

\* top of the loop: build the URL and call makeAPIRequest(url, ..., 3)
StartPage ==
    /\ pc = "loop"
    /\ urls' = Append(urls, PageURL(caller, currentEndDate, startDate, startDateStr, limit))
    /\ maxRetries' = FetchRetries
    /\ attempt' = 0
    /\ outcomes' = <<>>
    /\ sleeps' = <<>>
    /\ resp' = <<>>
    /\ err' = ""
    /\ pc' = "attempt"
    /\ UNCHANGED <<limit, startDateStr, currentEndDate, all, pages, listKey, result>>
    /\ UNCHANGED argVars
    /\ headers' = Append(headers, Headers(apiKey, env))
    /\ UNCHANGED <<sent, body>>

\* What a fetch function returns: records and an error; status, ticker and
\* body are what the error message embeds.
NoResult == [records |-> <<>>, err |-> "", status |-> 0, ticker |-> "", body |-> ""]
Records(rs) == [NoResult EXCEPT !.records = rs]
ErrorResult(e) == [NoResult EXCEPT !.err = e]

\* Variant: the message of a non-200 answer leaves the body out.
StatusErrorWithoutBody(t, s, b) ==
    [records |-> <<>>, err |-> "status", status |-> s, ticker |-> t, body |-> ""]

\* return nil, fmt.Errorf("...: %s - %d - %s", ticker, resp.StatusCode, string(body))
StatusError(t, s, b) ==
    [records |-> <<>>, err |-> "status", status |-> s, ticker |-> t, body |-> b]

\* Variant: a failed page returns the records gathered so far with the error.
FailKeepingRecords(e, s) ==
    /\ result' = [ErrorResult(e) EXCEPT !.records = all, !.status = s]
    /\ pc' = "done"
    /\ UNCHANGED <<limit, startDateStr, currentEndDate, all, urls, headers, pages, listKey>>
    /\ UNCHANGED retryVars
    /\ UNCHANGED argVars
    /\ body' = IF e = "request" THEN body ELSE Closed(body)

\* every error return of the loop body: return nil, error
Fail(e, s) ==
    /\ result' = IF e = "status" THEN StatusError(ticker, s, resp[1].body) ELSE ErrorResult(e)
    /\ pc' = "done"
    /\ UNCHANGED <<limit, startDateStr, currentEndDate, all, urls, headers, pages, listKey>>
    /\ UNCHANGED retryVars
    /\ UNCHANGED argVars
    /\ body' = IF e = "request" THEN body ELSE Closed(body)

\* if err != nil { return nil, "API request failed" }
PageRequestFailed ==
    /\ pc = "returned"
    /\ err # ""
    /\ Fail("request", 0)

\* if resp.StatusCode != 200 { return nil, error with ticker, status, body }
PageNon200 ==
    /\ pc = "returned"
    /\ err = ""
    /\ resp[1].status # StatusOK
    /\ Fail("status", resp[1].status)

GotOK ==
    /\ pc = "returned"
    /\ err = ""
    /\ resp[1].status = StatusOK

\* io.ReadAll fails
PageReadError ==
    /\ GotOK
    /\ Fail("read", 0)

\* json.Unmarshal fails
PageDecodeError ==
    /\ GotOK
    /\ Fail("decode", 0)

\* Variant: an empty page is an error.
PageEmptyRefused ==
    /\ GotOK
    /\ ListsAgain(<<>>)
    /\ pages' = Append(pages, <<>>)
    /\ listKey' \in ListKeys(<<>>)
    /\ result' = ErrorResult("empty")
    /\ pc' = "done"
    /\ UNCHANGED <<limit, startDateStr, currentEndDate, all, urls, headers>>
    /\ UNCHANGED retryVars
    /\ UNCHANGED argVars
    /\ body' = Closed(body)

\* the body decodes to an empty list: if len(page) == 0 { break }
PageEmpty ==
    /\ GotOK
    /\ ListsAgain(<<>>)
    /\ pages' = Append(pages, <<>>)
    /\ listKey' \in ListKeys(<<>>)
    /\ result' = Records(all)
    /\ pc' = "done"
    /\ UNCHANGED <<limit, startDateStr, currentEndDate, all, urls, headers>>
    /\ UNCHANGED retryVars
    /\ UNCHANGED argVars
    /\ body' = Closed(body)

\* the body decodes to a non-empty list: append it, then break (unbounded
\* mode or short page), or move the cursor and break (start date reached)
\* or go round the loop again
PageAppended ==
    /\ GotOK
    /\ \E page \in PagesAfter(pages, held) :
        /\ Len(page) # 0
        /\ ListsAgain(page)
        /\ pages' = Append(pages, page)
        /\ listKey' \in ListKeys(page)
        /\ all' = AppendPage(all, page)
        /\ IF StopAfterPage(startDate, Len(page), limit)
           THEN /\ UNCHANGED currentEndDate
                /\ result' = Records(all')
                /\ pc' = "done"
           ELSE /\ currentEndDate' = NextCursor(page)
                /\ IF ReachedStart(startDate, currentEndDate')
                   THEN /\ result' = Records(all')
                        /\ pc' = "done"
                   ELSE /\ UNCHANGED result
                        /\ pc' = "loop"
    /\ UNCHANGED <<limit, startDateStr, urls, headers>>
    /\ UNCHANGED retryVars
    /\ UNCHANGED argVars
    /\ body' = Closed(body)

\* ------------------------- GetPrices / GetFinancialMetrics / SearchLineItems
\* if period == "" { period = "ttm" }
DefaultPeriod(p) == IF p = "" THEN "ttm" ELSE p

\* if limit == 0 { limit = 10 }
DefaultCount(l) == IF l = 0 THEN DefaultRecordLimit ELSE l

\* The request of a one-request fetch function: endpoint and parameters.
FetchURL(c, t, sd, ed, l, p) ==
    IF c = "GetPrices"
    THEN [endpoint |-> "/prices/", ticker |-> t, start |-> sd[1], lte |-> ed,
          limit |-> 0, period |-> ""]
    ELSE [endpoint |-> IF c = "GetFinancialMetrics" THEN "/financial-metrics/"
                       ELSE "/financials/search/line-items",
          ticker |-> t, start |-> 0, lte |-> ed, limit |-> l, period |-> p]

\* Variant: the facts are asked of the financial-metrics endpoint.
FactsURLOfMetrics(t) ==
    [endpoint |-> "/financial-metrics/", ticker |-> t, start |-> 0, lte |-> 0,
     limit |-> 0, period |-> ""]

\* url := ".../company/facts/?ticker=%s"
FactsURL(t) ==
    [endpoint |-> "/company/facts/", ticker |-> t, start |-> 0, lte |-> 0,
     limit |-> 0, period |-> ""]

\* if len(results) > limit { return results[:limit] }: SearchLineItems only
Truncated(c, rs, l) ==
    IF c = "SearchLineItems" /\ Len(rs) > l THEN SubSeq(rs, 1, l) ELSE rs

\* results[:limit] with 0 < len(results) and limit < 0: slice bounds out of
\* range, a run-time panic
SlicePanics(c, rs, l) == c = "SearchLineItems" /\ Len(rs) # 0 /\ Len(rs) > l /\ l < 0

\* Where control goes when a one-request fetch function returns.
FetchReturn ==
    IF outer = "GetMarketCap" THEN "metrics"
    ELSE IF outer = "FinancialMetricsTool" THEN "tooled"
    ELSE "done"

\* function entry: defaults, request, makeAPIRequest(url, headers, ..., 3)
FetchCall ==
    /\ pc = "call"
    /\ caller \in Fetchers
    /\ period' = IF caller = "GetPrices" THEN period ELSE DefaultPeriod(period)
    /\ limit' = IF caller = "GetPrices" THEN limit ELSE DefaultCount(limit)
    /\ urls' = Append(urls, FetchURL(caller, ticker, startDate, endDate, limit', period'))
    /\ maxRetries' = FetchRetries
    /\ attempt' = 0
    /\ outcomes' = <<>>
    /\ sleeps' = <<>>
    /\ resp' = <<>>
    /\ err' = ""
    /\ pc' = "attempt"
    /\ UNCHANGED <<caller, startDate, endDate, startDateStr, currentEndDate, all, pages, listKey, result>>
    /\ UNCHANGED <<ticker, today, outer, log, marketCap, frameVars, itemVars, toolVars, givenVars>>
    /\ headers' = Append(headers, Headers(apiKey, env))
    /\ UNCHANGED <<sent, body>>

\* what every return of a one-request fetch function leaves alone
FetchReturns ==
    /\ pc' = FetchReturn
    /\ UNCHANGED <<limit, startDateStr, currentEndDate, all, urls, headers>>
    /\ UNCHANGED retryVars
    /\ UNCHANGED argVars
    /\ body' = IF err = "" THEN Closed(body) ELSE body

\* if err != nil { return nil, "API request failed" }
FetchRequestFailed ==
    /\ pc = "fetched"
    /\ err # ""
    /\ result' = ErrorResult("request")
    /\ UNCHANGED <<pages, listKey>>
    /\ FetchReturns

\* if resp.StatusCode != 200 { return nil, error with ticker, status, body }
FetchNon200 ==
    /\ pc = "fetched"
    /\ err = ""
    /\ resp[1].status # StatusOK
    /\ result' = StatusError(ticker, resp[1].status, resp[1].body)
    /\ UNCHANGED <<pages, listKey>>
    /\ FetchReturns

FetchedOK ==
    /\ pc = "fetched"
    /\ err = ""
    /\ resp[1].status = StatusOK

\* io.ReadAll fails
FetchReadError ==
    /\ FetchedOK
    /\ result' = ErrorResult("read")
    /\ UNCHANGED <<pages, listKey>>
    /\ FetchReturns

\* json.Unmarshal fails
FetchDecodeError ==
    /\ FetchedOK
    /\ result' = ErrorResult("decode")
    /\ UNCHANGED <<pages, listKey>>
    /\ FetchReturns

\* the body decodes: return the records (SearchLineItems: at most limit)
FetchDecoded ==
    /\ FetchedOK
    /\ \E rs \in RecordLists :
        /\ ~SlicePanics(caller, rs, limit)
        /\ ListsAgain(rs)
        /\ pages' = Append(pages, rs)
        /\ listKey' \in ListKeys(rs)
        /\ result' = Records(Truncated(caller, rs, limit))
    /\ FetchReturns

\* the body decodes and the slice expression panics: the deferred Close runs
\* and the panic goes up the stack, nothing is returned
FetchSlicePanics ==
    /\ FetchedOK
    /\ \E rs \in RecordLists :
        /\ SlicePanics(caller, rs, limit)
        /\ ListsAgain(rs)
        /\ pages' = Append(pages, rs)
        /\ listKey' \in ListKeys(rs)
    /\ pc' = "panicked"
    /\ body' = Closed(body)
    /\ UNCHANGED <<limit, startDateStr, currentEndDate, all, urls, headers, result>>
    /\ UNCHANGED retryVars
    /\ UNCHANGED argVars

\* ----------------------------------------------------------- GetMarketCap
\* what GetMarketCap's returns leave alone
CapReturns ==
    /\ pc' = "done"
    /\ UNCHANGED <<limit, startDateStr, currentEndDate, all, urls, headers, pages, listKey, result>>
    /\ UNCHANGED retryVars
    /\ UNCHANGED <<caller, startDate, endDate, frameVars, itemVars, toolVars, givenVars>>
    /\ UNCHANGED <<ticker, period, today, outer>>
    /\ body' = IF err = "" THEN Closed(body) ELSE body

\* endDate == today: request the company facts
CapToday ==
    /\ pc = "call"
    /\ caller = "GetMarketCap"
    /\ endDate = today
    /\ urls' = Append(urls, FactsURL(ticker))
    /\ maxRetries' = FetchRetries
    /\ attempt' = 0
    /\ outcomes' = <<>>
    /\ sleeps' = <<>>
    /\ resp' = <<>>
    /\ err' = ""
    /\ pc' = "attempt"
    /\ UNCHANGED <<limit, startDateStr, currentEndDate, all, pages, listKey, result>>
    /\ UNCHANGED argVars
    /\ headers' = Append(headers, Headers(apiKey, env))
    /\ UNCHANGED <<sent, body>>

\* if err != nil { return 0, "API request failed" }
FactsRequestFailed ==
    /\ pc = "facts"
    /\ err # ""
    /\ marketCap' = <<[value |-> 0, err |-> "request"]>>
    /\ UNCHANGED log
    /\ CapReturns

\* if resp.StatusCode != 200 { fmt.Printf(ticker, status); return 0, nil }
FactsNon200 ==
    /\ pc = "facts"
    /\ err = ""
    /\ resp[1].status # StatusOK
    /\ log' = Append(log, [ticker |-> ticker, status |-> resp[1].status])
    /\ marketCap' = <<[value |-> 0, err |-> ""]>>
    /\ CapReturns

FactsOK ==
    /\ pc = "facts"
    /\ err = ""
    /\ resp[1].status = StatusOK

\* io.ReadAll fails
FactsReadError ==
    /\ FactsOK
    /\ marketCap' = <<[value |-> 0, err |-> "read"]>>
    /\ UNCHANGED log
    /\ CapReturns

\* json.Unmarshal fails
FactsDecodeError ==
    /\ FactsOK
    /\ marketCap' = <<[value |-> 0, err |-> "decode"]>>
    /\ UNCHANGED log
    /\ CapReturns

\* return factsResponse.CompanyFacts.MarketCap, nil
FactsDecoded ==
    /\ FactsOK
    /\ \E v \in CapValues : marketCap' = <<[value |-> v, err |-> ""]>>
    /\ UNCHANGED log
    /\ CapReturns

\* any other date: GetFinancialMetrics(ticker, endDate, "ttm", 10, apiKey...)
CapOtherDay ==
    /\ pc = "call"
    /\ caller = "GetMarketCap"
    /\ endDate # today
    /\ caller' = "GetFinancialMetrics"
    /\ outer' = "GetMarketCap"
    /\ period' = "ttm"
    /\ limit' = DefaultRecordLimit
    /\ UNCHANGED pc
    /\ UNCHANGED <<startDateStr, currentEndDate, all, urls, headers, pages, listKey, result>>
    /\ UNCHANGED retryVars
    /\ UNCHANGED <<startDate, endDate, frameVars, itemVars, toolVars, givenVars>>
    /\ UNCHANGED <<ticker, today, log, marketCap>>
    /\ UNCHANGED body

\* what GetMarketCap's returns after GetFinancialMetrics leave alone
MetricsReturns ==
    /\ pc' = "done"
    /\ caller' = "GetMarketCap"
    /\ outer' = ""
    /\ UNCHANGED <<limit, startDateStr, currentEndDate, all, urls, headers, pages, listKey, result>>
    /\ UNCHANGED retryVars
    /\ UNCHANGED <<startDate, endDate, frameVars, itemVars, toolVars, givenVars>>
    /\ UNCHANGED <<ticker, period, today, log>>
    /\ UNCHANGED body

\* Variant: a failed metrics fetch is turned into zero.
MetricsFailedSwallowed ==
    /\ pc = "metrics"
    /\ result.err # ""
    /\ marketCap' = <<[value |-> 0, err |-> ""]>>
    /\ MetricsReturns

\* if err != nil { return 0, err }
MetricsFailed ==
    /\ pc = "metrics"
    /\ result.err # ""
    /\ marketCap' = <<[value |-> 0, err |-> result.err]>>
    /\ MetricsReturns

\* if len(financialMetrics) == 0 { return 0, nil }
MetricsEmpty ==
    /\ pc = "metrics"
    /\ result.err = ""
    /\ Len(result.records) = 0
    /\ marketCap' = <<[value |-> 0, err |-> ""]>>
    /\ MetricsReturns

\* return financialMetrics[0].MarketCap, nil
MetricsFirst ==
    /\ pc = "metrics"
    /\ result.err = ""
    /\ Len(result.records) # 0
    /\ marketCap' = <<[value |-> result.records[1], err |-> ""]>>
    /\ MetricsReturns

Next ==
    \/ TransportError
    \/ RetryAfter429
    \/ ReturnResponse
    \/ Exhausted
    \/ Enter
    \/ StartPage
    \/ PageRequestFailed
    \/ PageNon200
    \/ PageReadError
    \/ PageDecodeError
    \/ PageEmpty
    \/ PageAppended
    \/ FetchCall
    \/ FetchRequestFailed
    \/ FetchNon200
    \/ FetchReadError
    \/ FetchDecodeError
    \/ FetchDecoded
    \/ CapToday
    \/ FactsRequestFailed
    \/ FactsNon200
    \/ FactsReadError
    \/ FactsDecodeError
    \/ FactsDecoded
    \/ CapOtherDay
    \/ MetricsFailed
    \/ MetricsEmpty
    \/ MetricsFirst

Spec == Init /\ [][Next]_vars

TypeOK ==
    /\ pc \in {"entry", "loop", "attempt", "returned", "done", "df_call", "df_done",
              "li_call", "li_done", "call", "fetched", "facts", "metrics",
              "tool", "tooled", "panicked"}
    /\ Len(tool.out) <= 1
    /\ Len(marketCap) <= 1
    /\ attempt \in Nat
    /\ Len(resp) <= 1
    /\ Len(df) <= 1

\* ------------------------------------------------------ PricesToDataFrame
\* Price.Time strings: RFC 3339 (an instant), date only (a day), or neither.
TimeStrings ==
    {[kind |-> "bad", v |-> 0]}
    \cup {[kind |-> "date", v |-> d] : d \in 0 .. (PriceDays - 1)}
    \cup {[kind |-> "rfc", v |-> i] : i \in 0 .. (2 * PriceDays - 1)}

\* The Price record at position n of a list: its five numbers name the
\* position and are told apart by their tens.
PriceRow(t, n) ==
    [Time |-> t, Open |-> 10 + n, Close |-> 20 + n, High |-> 30 + n,
     Low |-> 40 + n, Volume |-> 50 + n]

PriceLists ==
    {[i \in 1 .. Len(ts) |-> PriceRow(ts[i], i)] : ts \in SeqsUpTo(TimeStrings, MaxPrices)}

\* time.Parse(time.RFC3339, s), and on error time.Parse("2006-01-02", s)
ParseTime(t) ==
    IF t.kind = "rfc" THEN [ok |-> TRUE, date |-> t.v]
    ELSE IF t.kind = "date" THEN [ok |-> TRUE, date |-> 2 * t.v]
    ELSE [ok |-> FALSE, date |-> 0]

\* Variant: the comparison of the sort is the wrong way round.
BeforeReversed(x, y) == x > y

\* time.Time.Before
Before(x, y) == x < y

\* the loops that fill df and then data: one sortData per price
SortData(ps) ==
    [i \in 1 .. Len(ps) |->
        [date |-> ParseTime(ps[i].Time).date, open |-> ps[i].Open,
         close |-> ps[i].Close, high |-> ps[i].High, low |-> ps[i].Low,
         volume |-> ps[i].Volume]]

\* Perms[n]: the orderings of n elements.
Perms ==
    [n \in 0 .. MaxPrices |->
        {f \in [1 .. n -> 1 .. n] : \A i, j \in 1 .. n : f[i] = f[j] => i = j}]

\* sort.Slice(data, less): some ordering of the rows of data in which no element is
\* before an earlier one by less; the order of equal elements is not fixed.
SortSlice(rows) ==
    {[i \in 1 .. Len(rows) |-> rows[f[i]]] : f \in
        {g \in Perms[Len(rows)] :
            \A i, j \in 1 .. Len(rows) :
                i < j => ~Before(rows[g[j]].date, rows[g[i]].date)}}

\* Variant: the Low column is filled from the high field.
ColumnsLowFromHigh(rows) ==
    [Dates |-> [i \in 1 .. Len(rows) |-> rows[i].date],
     Open |-> [i \in 1 .. Len(rows) |-> rows[i].open],
     Close |-> [i \in 1 .. Len(rows) |-> rows[i].close],
     High |-> [i \in 1 .. Len(rows) |-> rows[i].high],
     Low |-> [i \in 1 .. Len(rows) |-> rows[i].high],
     Volume |-> [i \in 1 .. Len(rows) |-> rows[i].volume]]

\* the last loop: write the sorted data back into the columns
Columns(rows) ==
    [Dates |-> [i \in 1 .. Len(rows) |-> rows[i].date],
     Open |-> [i \in 1 .. Len(rows) |-> rows[i].open],
     Close |-> [i \in 1 .. Len(rows) |-> rows[i].close],
     High |-> [i \in 1 .. Len(rows) |-> rows[i].high],
     Low |-> [i \in 1 .. Len(rows) |-> rows[i].low],
     Volume |-> [i \in 1 .. Len(rows) |-> rows[i].volume]]

\* &PriceDataFrame{}
EmptyFrame ==
    [Dates |-> <<>>, Open |-> <<>>, Close |-> <<>>, High |-> <<>>,
     Low |-> <<>>, Volume |-> <<>>]

BadTimes(ps) == {i \in 1 .. Len(ps) : ~ParseTime(ps[i].Time).ok}

fetchVars == <<caller, maxRetries, attempt, outcomes, sleeps, resp, err,
               limit, startDate, endDate, startDateStr, currentEndDate,
               all, urls, headers, pages, listKey, result, capVars, toolVars, givenVars,
               sent, body>>

\* A LineItem as declared: every field at its zero value, Data nil.
ZeroLineItem ==
    [Ticker |-> "", ReportPeriod |-> "", Period |-> "", Currency |-> "", Data |-> <<>>]

\* UnmarshalJSON is not running.
ItemIdle ==
    /\ data = <<>>
    /\ li = ZeroLineItem
    /\ liErr = ""

\* The fetch functions are not running.
FetchIdle ==
    /\ maxRetries = 0
    /\ attempt = 0
    /\ outcomes = <<>>
    /\ sleeps = <<>>
    /\ resp = <<>>
    /\ err = ""
    /\ limit = 0
    /\ startDate = <<>>
    /\ endDate = 0
    /\ startDateStr = ""
    /\ currentEndDate = 0
    /\ all = <<>>
    /\ urls = <<>>
    /\ pages = <<>>
    /\ result = NoResult
    /\ ticker = ""
    /\ period = ""
    /\ today = 0
    /\ outer = ""
    /\ log = <<>>
    /\ marketCap = <<>>
    /\ req = [Symbol |-> "", Date |-> <<>>, Period |-> "", Limit |-> 0]
    /\ tool = NoTool
    /\ NetIdle

InitPrices ==
    /\ caller = "PricesToDataFrame"
    /\ pc = "df_call"
    /\ prices \in PriceLists
    /\ df = <<>>
    /\ dfErr = ""
    /\ FetchIdle
    /\ ItemIdle

\* Variant: an empty list is reported as an error.
FrameOfEmptyListRefused ==
    /\ pc = "df_call"
    /\ Len(prices) = 0
    /\ df' = <<>>
    /\ dfErr' = "empty"
    /\ pc' = "df_done"
    /\ UNCHANGED <<prices, fetchVars, itemVars>>

\* if len(prices) == 0 { return &PriceDataFrame{}, nil }
FrameOfEmptyList ==
    /\ pc = "df_call"
    /\ Len(prices) = 0
    /\ df' = <<EmptyFrame>>
    /\ dfErr' = ""
    /\ pc' = "df_done"
    /\ UNCHANGED <<prices, fetchVars, itemVars>>

\* Variant: a record whose time does not parse is left out of the table.
FrameSkippingBadTimes ==
    /\ pc = "df_call"
    /\ Len(prices) # 0
    /\ BadTimes(prices) # {}
    /\ df' = <<Columns(SortData(SelectSeq(prices, LAMBDA r : ParseTime(r.Time).ok)))>>
    /\ dfErr' = ""
    /\ pc' = "df_done"
    /\ UNCHANGED <<prices, fetchVars, itemVars>>

\* a time matches neither format: return nil, error
FrameParseError ==
    /\ pc = "df_call"
    /\ Len(prices) # 0
    /\ BadTimes(prices) # {}
    /\ df' = <<>>
    /\ dfErr' = "parse"
    /\ pc' = "df_done"
    /\ UNCHANGED <<prices, fetchVars, itemVars>>

\* every time parses: sort by date and return the table
FrameSorted ==
    /\ pc = "df_call"
    /\ Len(prices) # 0
    /\ BadTimes(prices) = {}
    /\ \E sorted \in SortSlice(SortData(prices)) : df' = <<Columns(sorted)>>
    /\ dfErr' = ""
    /\ pc' = "df_done"
    /\ UNCHANGED <<prices, fetchVars, itemVars>>

NextPrices ==
    \/ FrameOfEmptyList
    \/ FrameParseError
    \/ FrameSorted

SpecPrices == InitPrices /\ [][NextPrices]_vars

\* --------------------------------------------------- LineItem.UnmarshalJSON
\* JSON values of the members: strings, number literals (by their text), null.
JSONValues ==
    {[kind |-> "string", s |-> "USD"], [kind |-> "string", s |-> "EUR"],
     [kind |-> "number", s |-> "7"], [kind |-> "number", s |-> "9007199254740993"],
     [kind |-> "null", s |-> ""]}

MemberKeys == {"ticker", "Ticker", "report_period", "period", "currency", "revenue"}

\* Members of the payloads: any value under ticker and revenue, strings
\* under the other keys.
Members ==
    {m \in [key : MemberKeys, value : JSONValues] :
        m.key \in {"ticker", "revenue"} \/ m.value.kind = "string"}

Payloads == SeqsUpTo(Members, MaxMembers)

\* encoding/json's key folding: the key with its letters in one case
Fold(k) == IF k = "Ticker" THEN "ticker" ELSE k

\* the json tags of the four string fields of LineItem
FieldTags == {"ticker", "report_period", "period", "currency"}

\* Variant: currency is not removed from the map.
DeletedKeysWithoutCurrency == {"ticker", "report_period", "period"}

\* the four delete(raw, ...) calls
DeletedKeys == {"ticker", "report_period", "period", "currency"}

\* strconv.ParseFloat(text, 64) of a number literal: 2^53 + 1 is not a float64
Float64Of(text) == IF text = "9007199254740993" THEN "9007199254740992" ELSE text

\* the Go value json.Unmarshal stores in an interface{} for a JSON value
Decoded(v) ==
    IF v.kind = "number" THEN [kind |-> "float64", s |-> Float64Of(v.s)]
    ELSE IF v.kind = "null" THEN [kind |-> "nil", s |-> ""]
    ELSE v

MaxOf(S) == CHOOSE x \in S : \A y \in S : y <= x

\* members that set the struct field tagged tag: key equal or equal by case
FieldMembers(ms, tag) == {i \in 1 .. Len(ms) : Fold(ms[i].key) = tag}

\* json.Unmarshal(data, &aux), one string field: the last string member
\* that matches; null members and mismatched members leave it as it is
FieldAfter(ms, tag, old) ==
    LET strs == {i \in FieldMembers(ms, tag) : ms[i].value.kind = "string"}
    IN IF strs = {} THEN old ELSE ms[MaxOf(strs)].value.s

\* members whose value cannot go into the string field they match
TypeErrors(ms) ==
    {i \in 1 .. Len(ms) : Fold(ms[i].key) \in FieldTags /\ ms[i].value.kind = "number"}

\* json.Unmarshal(data, &raw): every key, with its last value
RawMap(ms) ==
    [k \in {ms[i].key : i \in 1 .. Len(ms)} |->
        Decoded(ms[MaxOf({i \in 1 .. Len(ms) : ms[i].key = k})].value)]

\* delete(raw, k) for each of the keys
DeleteKeys(raw, keys) == [k \in (DOMAIN raw) \ keys |-> raw[k]]

\* the four fields after the first json.Unmarshal
FieldsAfter(ms, old) ==
    [Ticker |-> FieldAfter(ms, "ticker", old.Ticker),
     ReportPeriod |-> FieldAfter(ms, "report_period", old.ReportPeriod),
     Period |-> FieldAfter(ms, "period", old.Period),
     Currency |-> FieldAfter(ms, "currency", old.Currency),
     Data |-> old.Data]

InitLineItem ==
    /\ caller = "UnmarshalJSON"
    /\ pc = "li_call"
    /\ data \in Payloads
    /\ li = ZeroLineItem
    /\ liErr = ""
    /\ FetchIdle
    /\ prices = <<>>
    /\ df = <<>>
    /\ dfErr = ""

\* the first json.Unmarshal reports a type error: return err, Data not set
UnmarshalTypeError ==
    /\ pc = "li_call"
    /\ TypeErrors(data) # {}
    /\ li' = FieldsAfter(data, li)
    /\ liErr' = "type"
    /\ pc' = "li_done"
    /\ UNCHANGED <<data, fetchVars, frameVars>>

\* both json.Unmarshal calls succeed: the four keys are deleted, li.Data = raw
UnmarshalDone ==
    /\ pc = "li_call"
    /\ TypeErrors(data) = {}
    /\ li' = [FieldsAfter(data, li) EXCEPT !.Data = <<DeleteKeys(RawMap(data), DeletedKeys)>>]
    /\ liErr' = ""
    /\ pc' = "li_done"
    /\ UNCHANGED <<data, fetchVars, frameVars>>

NextLineItem ==
    \/ UnmarshalTypeError
    \/ UnmarshalDone

SpecLineItem == InitLineItem /\ [][NextLineItem]_vars

\* ------------------------------------------------- financial-metrics tool
\* Limits a client of the tool may ask for.
ToolLimits == {-1, 0, 3, 10, 11}

\* Variant: the tool leaves a missing limit to GetFinancialMetrics.
ToolLimitPassedOn(l) == IF l > DefaultRecordLimit THEN DefaultRecordLimit ELSE l

\* if limit <= 0 { limit = 5 }; if limit > 10 { limit = 10 }
ToolLimit(l) ==
    IF l <= 0 THEN ToolDefaultLimit
    ELSE IF l > DefaultRecordLimit THEN DefaultRecordLimit
    ELSE l

\* date := req.Date; if date == "" { date = time.Now().Format("2006-01-02") }
ToolDate(d, now) == IF d = <<>> THEN now ELSE d[1]

\* The tool's output for a request that was passed on to getMetricsFunc.
ToolOutput(metrics, e) ==
    [Symbol |-> req.Symbol, Date |-> <<endDate>>, Period |-> period,
     Metrics |-> metrics, Count |-> Len(metrics), Error |-> e]

\* what the tool leaves alone when it returns
ToolReturns ==
    /\ pc' = "done"
    /\ caller' = "FinancialMetricsTool"
    /\ outer' = ""
    /\ UNCHANGED <<limit, startDateStr, currentEndDate, all, urls, headers, pages, listKey, result>>
    /\ UNCHANGED retryVars
    /\ UNCHANGED <<startDate, endDate, frameVars, itemVars, givenVars>>
    /\ UNCHANGED <<ticker, period, today, log, marketCap, req>>
    /\ UNCHANGED body

\* if req.Symbol == "" { return output with Error, nil }
ToolEmptySymbol ==
    /\ pc = "tool"
    /\ caller = "FinancialMetricsTool"
    /\ req.Symbol = ""
    /\ tool' = [tool EXCEPT !.out = <<[Symbol |-> "", Date |-> <<>>, Period |-> "",
                                       Metrics |-> <<>>, Count |-> 0, Error |-> "symbol"]>>]
    /\ ToolReturns

\* defaults, then getMetricsFunc(req.Symbol, date, period, limit), which is
\* GetFinancialMetrics(symbol, date, period, limit)
ToolCall ==
    /\ pc = "tool"
    /\ caller = "FinancialMetricsTool"
    /\ req.Symbol # ""
    /\ ticker' = req.Symbol
    /\ endDate' = ToolDate(req.Date, today)
    /\ period' = DefaultPeriod(req.Period)
    /\ limit' = ToolLimit(req.Limit)
    /\ caller' = "GetFinancialMetrics"
    /\ outer' = "FinancialMetricsTool"
    /\ pc' = "call"
    /\ UNCHANGED <<startDateStr, currentEndDate, all, urls, headers, pages, listKey, result>>
    /\ UNCHANGED retryVars
    /\ UNCHANGED <<startDate, frameVars, itemVars, toolVars, givenVars>>
    /\ UNCHANGED <<today, log, marketCap>>
    /\ UNCHANGED body

\* if err != nil { return output with Error, nil }
ToolFailed ==
    /\ pc = "tooled"
    /\ result.err # ""
    /\ tool' = [tool EXCEPT !.out = <<ToolOutput(<<>>, result.err)>>]
    /\ ToolReturns

\* the metrics arrived: build the output, save it to a file (a failure to
\* save is only logged), return it
ToolDone ==
    /\ pc = "tooled"
    /\ result.err = ""
    /\ \E written \in BOOLEAN :
        tool' = [tool EXCEPT !.out = <<ToolOutput(result.records, "")>>, !.saved = written]
    /\ ToolReturns

InitTool ==
    /\ caller \in {"GetFinancialMetrics", "FinancialMetricsTool"}
    /\ today \in DateOnly
    /\ IF caller = "GetFinancialMetrics"
       THEN /\ pc = "call"
            /\ limit \in Limits
            /\ period \in Periods
            /\ endDate \in DateOnly
            /\ ticker \in Tickers
            /\ req = [Symbol |-> ticker, Date |-> <<endDate>>, Period |-> period,
                      Limit |-> limit]
       ELSE /\ pc = "tool"
            /\ limit = 0
            /\ period = ""
            /\ endDate = 0
            /\ ticker = ""
            /\ req \in [Symbol : Tickers \cup {""}, Date : {<<>>} \cup {<<d>> : d \in DateOnly},
                        Period : Periods, Limit : ToolLimits]
    /\ tool = [NoTool EXCEPT !.name = IF caller = "FinancialMetricsTool" THEN caller ELSE ""]
    /\ maxRetries = 0
    /\ attempt = 0
    /\ outcomes = <<>>
    /\ sleeps = <<>>
    /\ resp = <<>>
    /\ err = ""
    /\ startDate = <<>>
    /\ startDateStr = ""
    /\ currentEndDate = 0
    /\ all = <<>>
    /\ urls = <<>>
    /\ pages = <<>>
    /\ result = NoResult
    /\ outer = ""
    /\ log = <<>>
    /\ marketCap = <<>>
    /\ ItemIdle
    /\ prices = <<>>
    /\ df = <<>>
    /\ dfErr = ""
    /\ NetIdle

NextTool ==
    \/ ToolEmptySymbol
    \/ ToolCall
    \/ FetchCall
    \/ TransportError
    \/ RetryAfter429
    \/ ReturnResponse
    \/ FetchRequestFailed
    \/ FetchNon200
    \/ FetchReadError
    \/ FetchDecodeError
    \/ FetchDecoded
    \/ ToolFailed
    \/ ToolDone

SpecTool == InitTool /\ [][NextTool]_vars

\* ------------------------------------ company-news and market-cap tools
NewsToolLimits == {-1, 0, 3, 20, 21}
AgentTools == {"MarketCapTool", "FinancialMetricsTool", "CompanyNewsTool"}

\* Variant: the tool passes any positive limit on.
NewsToolLimitUncapped(l) == IF l <= 0 THEN NewsToolDefault ELSE l

\* if limit <= 0 { limit = 10 }; if limit > 20 { limit = 20 }
NewsToolLimit(l) ==
    IF l <= 0 THEN NewsToolDefault
    ELSE IF l > NewsToolMax THEN NewsToolMax
    ELSE l

\* CompanyNewsOutput for a request that was passed on to getNewsFunc
NewsOutput(news, e) ==
    [Symbol |-> req.Symbol, Date |-> <<endDate>>, News |-> news, Count |-> Len(news),
     Error |-> e]

\* MarketCapOutput for a request that was passed on to getMarketCapFunc
CapOutput(v, currency, e) ==
    [Symbol |-> req.Symbol, Date |-> <<endDate>>, MarketCap |-> v, Currency |-> currency,
     Error |-> e]

\* what the two handlers leave alone when they return
HandlerReturns ==
    /\ pc' = "done"
    /\ caller' = tool.name
    /\ UNCHANGED walkVars
    /\ UNCHANGED retryVars
    /\ UNCHANGED <<startDate, endDate, frameVars, itemVars, givenVars>>
    /\ UNCHANGED <<capVars, req, body>>

\* if req.Symbol == "" { return &CompanyNewsOutput{Error: ...}, nil }
NewsToolEmptySymbol ==
    /\ pc = "tool"
    /\ caller = "CompanyNewsTool"
    /\ req.Symbol = ""
    /\ tool' = [tool EXCEPT !.out = <<[Symbol |-> "", Date |-> <<>>, News |-> <<>>,
                                       Count |-> 0, Error |-> "symbol"]>>]
    /\ HandlerReturns

\* defaults, then getNewsFunc(req.Symbol, date, nil, limit), which is
\* GetCompanyNews(symbol, date, since, limit)
NewsToolCall ==
    /\ pc = "tool"
    /\ caller = "CompanyNewsTool"
    /\ req.Symbol # ""
    /\ ticker' = req.Symbol
    /\ endDate' = ToolDate(req.Date, today)
    /\ startDate' = <<>>
    /\ limit' = NewsToolLimit(req.Limit)
    /\ caller' = "GetCompanyNews"
    /\ pc' = "entry"
    /\ UNCHANGED <<startDateStr, currentEndDate, all, urls, headers, pages, listKey, result>>
    /\ UNCHANGED retryVars
    /\ UNCHANGED <<frameVars, itemVars, toolVars, givenVars>>
    /\ UNCHANGED <<period, today, outer, log, marketCap, body>>

\* Variant: a failed fetch is returned to the agent as an error.
NewsToolFailedReturned ==
    /\ pc = "done"
    /\ caller = "GetCompanyNews"
    /\ tool.name = "CompanyNewsTool"
    /\ result.err # ""
    /\ tool' = [tool EXCEPT !.err = result.err]
    /\ HandlerReturns

\* if err != nil { return &CompanyNewsOutput{Symbol, Date, Error}, nil }
NewsToolFailed ==
    /\ pc = "done"
    /\ caller = "GetCompanyNews"
    /\ tool.name = "CompanyNewsTool"
    /\ result.err # ""
    /\ tool' = [tool EXCEPT !.out = <<NewsOutput(<<>>, result.err)>>]
    /\ HandlerReturns

\* the news arrived: build the output, save it to a file (a failure to save
\* is only logged), return it
NewsToolDone ==
    /\ pc = "done"
    /\ caller = "GetCompanyNews"
    /\ tool.name = "CompanyNewsTool"
    /\ result.err = ""
    /\ \E written \in BOOLEAN :
        tool' = [tool EXCEPT !.out = <<NewsOutput(result.records, "")>>, !.saved = written]
    /\ HandlerReturns

\* if req.Symbol == "" { return &MarketCapOutput{Error: ...}, nil }
CapToolEmptySymbol ==
    /\ pc = "tool"
    /\ caller = "MarketCapTool"
    /\ req.Symbol = ""
    /\ tool' = [tool EXCEPT !.out = <<[Symbol |-> "", Date |-> <<>>, MarketCap |-> 0,
                                       Currency |-> "", Error |-> "symbol"]>>]
    /\ HandlerReturns

\* date default, then getMarketCapFunc(req.Symbol, date), which is
\* GetMarketCap(symbol, date)
CapToolCall ==
    /\ pc = "tool"
    /\ caller = "MarketCapTool"
    /\ req.Symbol # ""
    /\ ticker' = req.Symbol
    /\ endDate' = ToolDate(req.Date, today)
    /\ caller' = "GetMarketCap"
    /\ pc' = "call"
    /\ UNCHANGED walkVars
    /\ UNCHANGED retryVars
    /\ UNCHANGED <<startDate, frameVars, itemVars, toolVars, givenVars>>
    /\ UNCHANGED <<period, today, outer, log, marketCap, body>>

\* if err != nil { return &MarketCapOutput{Symbol, Date, Error}, nil }
CapToolFailed ==
    /\ pc = "done"
    /\ caller = "GetMarketCap"
    /\ tool.name = "MarketCapTool"
    /\ marketCap[1].err # ""
    /\ tool' = [tool EXCEPT !.out = <<CapOutput(0, "", marketCap[1].err)>>]
    /\ HandlerReturns

\* return &MarketCapOutput{Symbol, Date, MarketCap, Currency: "USD"}, nil
CapToolDone ==
    /\ pc = "done"
    /\ caller = "GetMarketCap"
    /\ tool.name = "MarketCapTool"
    /\ marketCap[1].err = ""
    /\ tool' = [tool EXCEPT !.out = <<CapOutput(marketCap[1].value, "USD", "")>>]
    /\ HandlerReturns

\* The agent invokes one of the three tools.
InitTools ==
    /\ caller \in AgentTools
    /\ pc = "tool"
    /\ today \in DateOnly
    /\ req \in [Symbol : {"", "AAPL"},
                Date : {<<>>} \cup {<<d>> : d \in DateOnly},
                Period : IF caller = "FinancialMetricsTool" THEN Periods ELSE {""},
                Limit : IF caller = "FinancialMetricsTool" THEN ToolLimits
                        ELSE IF caller = "CompanyNewsTool" THEN NewsToolLimits
                        ELSE {0}]
    /\ tool = [NoTool EXCEPT !.name = caller]
    /\ apiKey = <<>>
    /\ env = ""
    /\ headers = <<>>
    /\ sent = <<>>
    /\ body = "none"
    /\ listKey = ""
    /\ held = {2 * (DayCount - 1)}
    /\ first = <<>>
    /\ limit = 0
    /\ period = ""
    /\ endDate = 0
    /\ ticker = ""
    /\ maxRetries = 0
    /\ attempt = 0
    /\ outcomes = <<>>
    /\ sleeps = <<>>
    /\ resp = <<>>
    /\ err = ""
    /\ startDate = <<>>
    /\ startDateStr = ""
    /\ currentEndDate = 0
    /\ all = <<>>
    /\ urls = <<>>
    /\ pages = <<>>
    /\ result = NoResult
    /\ outer = ""
    /\ log = <<>>
    /\ marketCap = <<>>
    /\ ItemIdle
    /\ prices = <<>>
    /\ df = <<>>
    /\ dfErr = ""

NextTools ==
    \/ ToolEmptySymbol
    \/ ToolCall
    \/ ToolFailed
    \/ ToolDone
    \/ NewsToolEmptySymbol
    \/ NewsToolCall
    \/ NewsToolFailed
    \/ NewsToolDone
    \/ CapToolEmptySymbol
    \/ CapToolCall
    \/ CapToolFailed
    \/ CapToolDone
    \/ TransportError
    \/ RetryAfter429
    \/ ReturnResponse
    \/ Enter
    \/ StartPage
    \/ PageRequestFailed
    \/ PageNon200
    \/ PageReadError
    \/ PageDecodeError
    \/ PageEmpty
    \/ PageAppended
    \/ FetchCall
    \/ FetchRequestFailed
    \/ FetchNon200
    \/ FetchReadError
    \/ FetchDecodeError
    \/ FetchDecoded
    \/ CapToday
    \/ FactsRequestFailed
    \/ FactsNon200
    \/ FactsReadError
    \/ FactsDecodeError
    \/ FactsDecoded
    \/ CapOtherDay
    \/ MetricsFailed
    \/ MetricsEmpty
    \/ MetricsFirst

SpecTools == InitTools /\ [][NextTools]_vars

\* -------------------------------------------- fundamental-analysis tool
\* A FinancialMetrics record, reduced to the fields the handler reads.  A
\* *float64 field is <<>> (nil) or <<v>>; a float64 field is a number, 0 when
\* the key is missing.  Ratios are in hundredths.
MetricsRecords ==
    [Ticker : {"AAPL"},
     ReturnOnEquity : {<<>>, <<0>>, <<15>>, <<16>>},
     DebtToEquity : {<<>>, <<0>>, <<49>>, <<50>>},
     OperatingMargin : {<<>>, <<0>>, <<16>>},
     CurrentRatio : {<<>>, <<0>>, <<151>>},
     PriceToEarningsRatio : {0, 2400, 2500},
     PriceToBookRatio : {-100, 299, 300}]

\* the records that may follow the first one
LaterRecords ==
    {[Ticker |-> "MSFT", ReturnOnEquity |-> <<16>>, DebtToEquity |-> <<0>>,
      OperatingMargin |-> <<16>>, CurrentRatio |-> <<151>>,
      PriceToEarningsRatio |-> 2400, PriceToBookRatio |-> 299],
     [Ticker |-> "MSFT", ReturnOnEquity |-> <<>>, DebtToEquity |-> <<>>,
      OperatingMargin |-> <<>>, CurrentRatio |-> <<>>,
      PriceToEarningsRatio |-> 0, PriceToBookRatio |-> 0]}

MetricsLists ==
    {<<>>} \cup
    {<<m>> \o rest : m \in MetricsRecords,
                     rest \in UNION {[1 .. k -> LaterRecords] : k \in 0 .. MaxMetrics - 1}}

\* if ReturnOnEquity != nil && *ReturnOnEquity > 0.15 / else if != nil / else
RoeVerdict(m) ==
    IF m.ReturnOnEquity # <<>> /\ m.ReturnOnEquity[1] > StrongROE THEN "strong"
    ELSE IF m.ReturnOnEquity # <<>> THEN "weak"
    ELSE "unavailable"

\* Variant: a debt-to-equity of 0 is taken for a missing one.
DebtVerdictZeroAbsent(m) ==
    IF m.DebtToEquity \in {<<>>, <<0>>} THEN "unavailable"
    ELSE IF m.DebtToEquity[1] < LowDebt THEN "strong"
    ELSE "weak"

\* if DebtToEquity != nil && *DebtToEquity < 0.5 / else if != nil / else
DebtVerdict(m) ==
    IF m.DebtToEquity # <<>> /\ m.DebtToEquity[1] < LowDebt THEN "strong"
    ELSE IF m.DebtToEquity # <<>> THEN "weak"
    ELSE "unavailable"

\* if OperatingMargin != nil && *OperatingMargin > 0.15 / else if != nil / else
MarginVerdict(m) ==
    IF m.OperatingMargin # <<>> /\ m.OperatingMargin[1] > StrongMargin THEN "strong"
    ELSE IF m.OperatingMargin # <<>> THEN "weak"
    ELSE "unavailable"

\* if CurrentRatio != nil && *CurrentRatio > 1.5 / else if != nil / else
LiquidityVerdict(m) ==
    IF m.CurrentRatio # <<>> /\ m.CurrentRatio[1] > GoodLiquidity THEN "strong"
    ELSE IF m.CurrentRatio # <<>> THEN "weak"
    ELSE "unavailable"

\* if pe > 0 && pe < 25 / else if pe > 0 / (nothing otherwise)
PEVerdict(m) ==
    IF m.PriceToEarningsRatio > 0 /\ m.PriceToEarningsRatio < FairPE THEN "strong"
    ELSE IF m.PriceToEarningsRatio > 0 THEN "weak"
    ELSE ""

\* if pb > 0 && pb < 3 / else if pb > 0 / (nothing otherwise)
PBVerdict(m) ==
    IF m.PriceToBookRatio > 0 /\ m.PriceToBookRatio < FairPB THEN "strong"
    ELSE IF m.PriceToBookRatio > 0 THEN "weak"
    ELSE ""

\* score += pts in the first branch of a check
Earned(verdict, pts) == IF verdict = "strong" THEN pts ELSE 0

Reasoned(v) == v.say # ""

\* latestMetrics := req.Metrics[0]
LatestMetrics(ms) == ms[1]

\* The response for a non-empty list.  Details is the reasoning joined with
\* "; ", kept here as the list of its parts.
Analysis(ms) ==
    LET m == LatestMetrics(ms)
        verdicts == <<[on |-> "return_on_equity", say |-> RoeVerdict(m)],
                      [on |-> "debt_to_equity", say |-> DebtVerdict(m)],
                      [on |-> "operating_margin", say |-> MarginVerdict(m)],
                      [on |-> "current_ratio", say |-> LiquidityVerdict(m)],
                      [on |-> "pe_ratio", say |-> PEVerdict(m)],
                      [on |-> "pb_ratio", say |-> PBVerdict(m)]>>
    IN  [Score |-> Earned(RoeVerdict(m), 2) + Earned(DebtVerdict(m), 2)
                   + Earned(MarginVerdict(m), 2) + Earned(LiquidityVerdict(m), 1)
                   + Earned(PEVerdict(m), 1) + Earned(PBVerdict(m), 1),
         Details |-> SelectSeq(verdicts, Reasoned),
         Metrics |-> <<m>>,
         Error |-> ""]

\* if len(req.Metrics) == 0 { return &FundamentalAnalysisResponse{Score: 0, ...}, nil }
AnalysisEmpty ==
    /\ pc = "tool"
    /\ caller = "FundamentalAnalysisTool"
    /\ Len(req.Metrics) = 0
    /\ tool' = [tool EXCEPT !.out = <<[Score |-> 0,
                                       Details |-> <<[on |-> "", say |-> "insufficient"]>>,
                                       Metrics |-> <<>>,
                                       Error |-> "metrics"]>>]
    /\ HandlerReturns

\* score the first record, save the analysis to a file (a failure to save is
\* only logged), return the result
AnalysisDone ==
    /\ pc = "tool"
    /\ caller = "FundamentalAnalysisTool"
    /\ Len(req.Metrics) > 0
    /\ \E written \in BOOLEAN :
        tool' = [tool EXCEPT !.out = <<Analysis(req.Metrics)>>, !.saved = written]
    /\ HandlerReturns

\* The agent invokes the analysis tool with a list of metrics records.
InitAnalysis ==
    /\ caller = "FundamentalAnalysisTool"
    /\ pc = "tool"
    /\ req \in [Metrics : MetricsLists]
    /\ tool = [NoTool EXCEPT !.name = caller]
    /\ today = 0
    /\ NetIdle
    /\ limit = 0
    /\ period = ""
    /\ endDate = 0
    /\ ticker = ""
    /\ maxRetries = 0
    /\ attempt = 0
    /\ outcomes = <<>>
    /\ sleeps = <<>>
    /\ resp = <<>>
    /\ err = ""
    /\ startDate = <<>>
    /\ startDateStr = ""
    /\ currentEndDate = 0
    /\ all = <<>>
    /\ urls = <<>>
    /\ pages = <<>>
    /\ result = NoResult
    /\ outer = ""
    /\ log = <<>>
    /\ marketCap = <<>>
    /\ ItemIdle
    /\ prices = <<>>
    /\ df = <<>>
    /\ dfErr = ""

NextAnalysis ==
    \/ AnalysisEmpty
    \/ AnalysisDone

SpecAnalysis == InitAnalysis /\ [][NextAnalysis]_vars

\* ------------------------------------------- keys, request counts, bodies
KeyArguments == {<<>>, <<"">>, <<"k1">>}
EnvValues == {"", "k2"}

\* The fetch functions under a transport that logs the requests, called
\* with and without a key, with the key set and unset in the environment.
InitNet ==
    /\ caller \in Walkers \cup Fetchers \cup {"GetMarketCap"}
    /\ apiKey \in KeyArguments
    /\ env \in EnvValues
    /\ headers = <<>>
    /\ sent = <<<<>>>>
    /\ body = "none"
    /\ listKey = ""
    /\ endDate = 2 * (DayCount - 1)
    /\ held = {endDate}
    /\ first = <<>>
    /\ ticker = "AAPL"
    /\ period = ""
    /\ IF caller \in Walkers
       THEN /\ pc = "entry"
            /\ maxRetries = FetchRetries
            /\ limit = 1
            /\ startDate \in {<<>>, <<0>>}
            /\ today = 0
       ELSE /\ pc = "call"
            /\ maxRetries = 0
            /\ limit = 0
            /\ startDate = IF caller = "GetPrices" THEN <<0>> ELSE <<>>
            /\ today \in IF caller = "GetMarketCap" THEN {0, endDate} ELSE {0}
    /\ outer = ""
    /\ log = <<>>
    /\ marketCap = <<>>
    /\ req = [Symbol |-> "", Date |-> <<>>, Period |-> "", Limit |-> 0]
    /\ tool = NoTool
    /\ attempt = 0
    /\ outcomes = <<>>
    /\ sleeps = <<>>
    /\ resp = <<>>
    /\ err = ""
    /\ startDateStr = ""
    /\ currentEndDate = 0
    /\ all = <<>>
    /\ urls = <<>>
    /\ pages = <<>>
    /\ result = NoResult
    /\ ItemIdle
    /\ prices = <<>>
    /\ df = <<>>
    /\ dfErr = ""

NextNet ==
    \/ TransportError
    \/ RetryAfter429
    \/ ReturnResponse
    \/ Enter
    \/ StartPage
    \/ PageRequestFailed
    \/ PageNon200
    \/ PageReadError
    \/ PageDecodeError
    \/ PageEmpty
    \/ PageAppended
    \/ FetchCall
    \/ FetchRequestFailed
    \/ FetchNon200
    \/ FetchReadError
    \/ FetchDecodeError
    \/ FetchDecoded
    \/ CapToday
    \/ FactsRequestFailed
    \/ FactsNon200
    \/ FactsReadError
    \/ FactsDecodeError
    \/ FactsDecoded
    \/ CapOtherDay
    \/ MetricsFailed
    \/ MetricsEmpty
    \/ MetricsFirst

SpecNet == InitNet /\ [][NextNet]_vars

\* ------------------------------------------------------ the same call again
\* The caller makes the call it made a second time: same arguments, same
\* environment, same server, which gives the answers again that it gave.  What the first call asked and got is set aside
\* and the histories start again; the locals of the first call are left as
\* they are, for the function to set them itself.
CallAgain ==
    /\ pc = "done"
    /\ first = <<>>
    /\ first' = <<[urls |-> urls, headers |-> headers, sent |-> sent[1], pages |-> pages,
                   listKey |-> listKey, result |-> result]>>
    /\ pc' = IF caller \in Walkers THEN "entry" ELSE "call"
    /\ urls' = <<>>
    /\ headers' = <<>>
    /\ sent' = <<<<>>>>
    /\ pages' = <<>>
    /\ listKey' = ""
    /\ result' = NoResult
    /\ body' = "none"
    /\ UNCHANGED <<limit, startDateStr, currentEndDate, all>>
    /\ UNCHANGED <<maxRetries, attempt, outcomes, sleeps, resp, err>>
    /\ UNCHANGED <<caller, startDate, endDate, frameVars, itemVars, capVars, toolVars>>
    /\ UNCHANGED <<apiKey, env, held>>

\* The five list fetch functions, with arguments that the defaults leave as
\* they are, under a transport that logs.
InitTwice ==
    /\ caller \in Walkers \cup Fetchers
    /\ apiKey = <<"k1">>
    /\ env = ""
    /\ headers = <<>>
    /\ sent = <<<<>>>>
    /\ body = "none"
    /\ listKey = ""
    /\ endDate = 2 * (DayCount - 1)
    /\ held = {endDate}
    /\ first = <<>>
    /\ ticker = "AAPL"
    /\ today = 0
    /\ limit = 1
    /\ IF caller \in Walkers
       THEN /\ pc = "entry"
            /\ maxRetries = FetchRetries
            /\ startDate = <<0>>
            /\ period = ""
       ELSE /\ pc = "call"
            /\ maxRetries = 0
            /\ startDate = IF caller = "GetPrices" THEN <<0>> ELSE <<>>
            /\ period = IF caller = "GetPrices" THEN "" ELSE "annual"
    /\ outer = ""
    /\ log = <<>>
    /\ marketCap = <<>>
    /\ req = [Symbol |-> "", Date |-> <<>>, Period |-> "", Limit |-> 0]
    /\ tool = NoTool
    /\ attempt = 0
    /\ outcomes = <<>>
    /\ sleeps = <<>>
    /\ resp = <<>>
    /\ err = ""
    /\ startDateStr = ""
    /\ currentEndDate = 0
    /\ all = <<>>
    /\ urls = <<>>
    /\ pages = <<>>
    /\ result = NoResult
    /\ ItemIdle
    /\ prices = <<>>
    /\ df = <<>>
    /\ dfErr = ""

NextTwice ==
    \/ TransportError
    \/ RetryAfter429
    \/ ReturnResponse
    \/ Enter
    \/ StartPage
    \/ PageRequestFailed
    \/ PageNon200
    \/ PageReadError
    \/ PageDecodeError
    \/ PageEmpty
    \/ PageAppended
    \/ FetchCall
    \/ FetchRequestFailed
    \/ FetchNon200
    \/ FetchReadError
    \/ FetchDecodeError
    \/ FetchDecoded
    \/ CallAgain

SpecTwice == InitTwice /\ [][NextTwice]_vars

\* ------------------------------------------------ SearchLineItems, any limit
SearchLimits == {-2, -1, 0, 1, 2, 3}

InitSearch ==
    /\ caller = "SearchLineItems"
    /\ pc = "call"
    /\ limit \in SearchLimits
    /\ period \in Periods
    /\ ticker \in Tickers
    /\ endDate \in DateOnly
    /\ startDate = <<>>
    /\ today = 0
    /\ maxRetries = 0
    /\ attempt = 0
    /\ outcomes = <<>>
    /\ sleeps = <<>>
    /\ resp = <<>>
    /\ err = ""
    /\ startDateStr = ""
    /\ currentEndDate = 0
    /\ all = <<>>
    /\ urls = <<>>
    /\ pages = <<>>
    /\ result = NoResult
    /\ outer = ""
    /\ log = <<>>
    /\ marketCap = <<>>
    /\ req = [Symbol |-> ticker, Date |-> <<endDate>>, Period |-> period, Limit |-> limit]
    /\ tool = NoTool
    /\ NetIdle
    /\ ItemIdle
    /\ prices = <<>>
    /\ df = <<>>
    /\ dfErr = ""

NextSearch ==
    \/ FetchCall
    \/ TransportError
    \/ RetryAfter429
    \/ ReturnResponse
    \/ FetchRequestFailed
    \/ FetchNon200
    \/ FetchReadError
    \/ FetchDecodeError
    \/ FetchDecoded
    \/ FetchSlicePanics

SpecSearch == InitSearch /\ [][NextSearch]_vars

\* ------------------------------------------------------------------------
\* Properties of makeAPIRequest
\* ------------------------------------------------------------------------
\* The running makeAPIRequest call has returned to its caller.
CallReturned == pc # "attempt" /\ (outcomes # <<>> \/ err # "")

\* Every attempt of the call was answered with HTTP 429.
All429 ==
    /\ outcomes # <<>>
    /\ \A i \in 1 .. Len(outcomes) : outcomes[i].ok /\ outcomes[i].status = 429

\* The call saw k answers of 429 and then one of 200.
Then200(k) ==
    /\ Len(outcomes) = k + 1
    /\ \A i \in 1 .. k : outcomes[i].ok /\ outcomes[i].status = 429
    /\ outcomes[k + 1].ok /\ outcomes[k + 1].status = 200

\* C1: with maxRetries >= 0 and a server that answers every attempt with
\* 429, makeAPIRequest returns the "retries exhausted" error and no
\* response, after exactly maxRetries + 1 requests.
C1_ExhaustedError ==
    (CallReturned /\ maxRetries >= 0 /\ All429)
        => (err = "exhausted" /\ resp = <<>> /\ Len(outcomes) = maxRetries + 1)

\* C2: k answers of 429 (k <= maxRetries) followed by a 200: the call slept
\* 60 + 30*i seconds after the i-th 429 (i from 0), made k + 1 requests and
\* returned the 200 response with a nil error.
C2_BackoffThen200 ==
    \A k \in 0 .. Len(outcomes) :
        (CallReturned /\ k <= maxRetries /\ Then200(k))
            => /\ Len(sleeps) = k
               /\ \A i \in 1 .. k : sleeps[i] = 60 + 30 * (i - 1)
               /\ Len(outcomes) = k + 1
               /\ err = ""
               /\ Len(resp) = 1
               /\ resp[1].status = 200

C2_Witness ==
    /\ caller = "makeAPIRequest"
    /\ pc = "done"
    /\ Then200(3)
    /\ sleeps = <<60, 90, 120>>
    /\ err = ""

\* C3: a status other than 429 ends the call at once: it is the last
\* attempt, the response is returned with a nil error, and no sleep follows.
C3_Non429Returned ==
    \A i \in 1 .. Len(outcomes) :
        (outcomes[i].ok /\ outcomes[i].status # 429)
            => /\ i = Len(outcomes)
               /\ pc # "attempt"
               /\ err = ""
               /\ Len(resp) = 1
               /\ resp[1].status = outcomes[i].status
               /\ Len(sleeps) = i - 1

C3_Witness ==
    /\ caller = "makeAPIRequest"
    /\ pc = "done"
    /\ Len(outcomes) = 2
    /\ outcomes[1].status = 429
    /\ outcomes[2].ok /\ outcomes[2].status = 500
    /\ attempt < maxRetries
    /\ err = "" /\ resp[1].status = 500

\* C4: a transport failure on any attempt ends the call at once with an
\* error and no response: no later attempt, no sleep after it.
C4_TransportAborts ==
    \A i \in 1 .. Len(outcomes) :
        ~outcomes[i].ok
            => /\ i = Len(outcomes)
               /\ pc # "attempt"
               /\ err = "transport"
               /\ resp = <<>>
               /\ Len(sleeps) = i - 1

C4_Witness ==
    /\ caller = "makeAPIRequest"
    /\ pc = "done"
    /\ Len(outcomes) = 3
    /\ outcomes[1].status = 429 /\ outcomes[2].status = 429
    /\ ~outcomes[3].ok
    /\ attempt < maxRetries
    /\ err = "transport"

\* ------------------------------------------------------------------------
\* Properties of the pagination walk (GetInsiderTrades, GetCompanyNews)
\* ------------------------------------------------------------------------
\* The aggregator is past its entry code (limit is defaulted).
InWalk == caller \in Walkers /\ pc # "entry"
Bounded == InWalk /\ startDate # <<>>
Unbounded == InWalk /\ startDate = <<>>

\* The oldest date of a non-empty page, and the calendar date of a date string.
Least(page) == CHOOSE m \in {page[i] : i \in 1 .. Len(page)} :
                   \A i \in 1 .. Len(page) : m <= page[i]
DatePart(c) == CHOOSE d \in DateOnly : d <= c /\ c <= d + 1
DayOf(c) == c \div 2
FullPage(i) == pages[i] # <<>> /\ Len(pages[i]) >= limit

\* Every full page decoded so far had an oldest date strictly older than the
\* cursor its request ended at.
StrictlyOlder == \A i \in 1 .. Len(pages) : FullPage(i) => Least(pages[i]) < urls[i].lte

\* Days strictly between which the cursor can move, at least one request.
Span == IF DayOf(endDate) - DayOf(startDate[1]) > 1
        THEN DayOf(endDate) - DayOf(startDate[1]) ELSE 1

RECURSIVE Concat(_)
Concat(ps) == IF ps = <<>> THEN <<>> ELSE Head(ps) \o Concat(Tail(ps))

RECURSIVE TotalLen(_, _)
TotalLen(ps, i) == IF i > Len(ps) THEN 0 ELSE Len(ps[i]) + TotalLen(ps, i + 1)

Count(sq, x) == Cardinality({i \in 1 .. Len(sq) : sq[i] = x})

\* C5: a bounded walk whose full pages are each strictly older than the
\* cursor issues at most one page request per calendar day between the start
\* and the end date (so finitely many), and an empty page is the last page:
\* the walk has returned and no request follows it.
C5_BoundedWalkTerminates ==
    Bounded =>
        /\ StrictlyOlder => Len(urls) <= Span
        /\ \A i \in 1 .. Len(pages) :
              pages[i] = <<>> => (i = Len(urls) /\ pc = "done" /\ result.err = "")

C5_Witness ==
    /\ Bounded /\ pc = "done"
    /\ StrictlyOlder
    /\ Len(urls) = 2 /\ Len(pages) = 2
    /\ FullPage(1)
    /\ pages[2] = <<>>
    /\ Len(urls) = Span

\* C6: in a bounded walk a page with fewer than limit records is the last
\* page requested, and the walk returns with that page's records at the end
\* of the result.
C6_ShortPageIsLast ==
    Bounded =>
        \A i \in 1 .. Len(pages) :
            Len(pages[i]) < limit
                => /\ i = Len(urls)
                   /\ pc = "done"
                   /\ result.err = ""
                   /\ Len(result.records) >= Len(pages[i])
                   /\ \A j \in 1 .. Len(pages[i]) :
                         result.records[Len(result.records) - Len(pages[i]) + j] = pages[i][j]

C6_Witness ==
    /\ Bounded /\ pc = "done"
    /\ limit = 2
    /\ Len(pages) = 2
    /\ Len(pages[2]) = 1
    /\ DatePart(Least(pages[2])) > startDate[1]
    /\ result.records = pages[1] \o pages[2]

\* C7: in a bounded walk the first page request ends at the caller's end
\* date and every later one at the calendar date of the oldest record of the
\* page before it.
C7_CursorIsOldestDate ==
    Bounded =>
        \A i \in 1 .. Len(urls) :
            urls[i].lte = IF i = 1 THEN endDate ELSE DatePart(Least(pages[i - 1]))

C7_Witness ==
    /\ Bounded
    /\ Len(urls) = 2
    /\ pages[1][1] > Least(pages[1])
    /\ Least(pages[1]) % 2 = 1
    /\ urls[2].lte = Least(pages[1]) - 1
    /\ urls[1].lte = endDate

\* C8: in a bounded walk, after page i another page request is issued
\* exactly when page i was non-empty, held at least limit records and left a
\* cursor strictly later than the start date.
C8_ContinueIff ==
    Bounded =>
        \A i \in 1 .. Len(pages) :
            (Len(urls) > i \/ pc = "loop")
                <=> (FullPage(i) /\ DatePart(Least(pages[i])) > startDate[1])

C8_Witness ==
    /\ Bounded /\ pc = "done"
    /\ Len(pages) = 2 /\ Len(urls) = 2
    /\ FullPage(1) /\ DatePart(Least(pages[1])) > startDate[1]
    /\ FullPage(2) /\ DatePart(Least(pages[2])) = startDate[1]
    /\ currentEndDate = startDate[1]

\* C9: an unbounded walk issues exactly one page request and returns exactly
\* the records of that page, also when the page is full.
C9_UnboundedOnePage ==
    Unbounded =>
        /\ Len(urls) <= 1
        /\ pc = "done" => Len(urls) = 1
        /\ (pc = "done" /\ result.err = "")
              => (Len(pages) = 1 /\ result.records = pages[1])

C9_Witness ==
    /\ Unbounded /\ pc = "done"
    /\ limit = 2
    /\ Len(pages) = 1 /\ Len(pages[1]) = limit
    /\ result.records = pages[1]
    /\ result.err = ""

\* C10: a successful walk returns the pages concatenated in fetch order,
\* each in its own order: the length is the sum of the page lengths and
\* every record occurs as often as in all the pages together.
C10_ResultIsConcatenation ==
    (InWalk /\ pc = "done" /\ result.err = "")
        => /\ result.records = Concat(pages)
           /\ Len(result.records) = TotalLen(pages, 1)
           /\ \A c \in Codes :
                 Count(result.records, c) = Count(Concat(pages), c)

C10_Witness ==
    /\ InWalk /\ pc = "done" /\ result.err = ""
    /\ Len(pages) = 2
    /\ Len(pages[1]) = 2 /\ Len(pages[2]) = 1
    /\ pages[1][1] < pages[1][2]
    /\ pages[2][1] = pages[1][1]
    /\ Count(result.records, pages[1][1]) = 2
    /\ result.records = <<pages[1][1], pages[1][2], pages[1][1]>>

\* C11: a page that fails (request error, non-200 status, body read error,
\* decode error) makes the aggregator return an error and no records: the
\* pages gathered so far are dropped and the failed request is the last one.
C11_PageFailureAborts ==
    [][/\ (caller \in Walkers /\ pc = "returned" /\ (err # "" \/ resp[1].status # 200))
           => (pc' = "done" /\ result'.err # "" /\ result'.records = <<>> /\ urls' = urls)
       /\ (caller \in Walkers /\ result'.err # "")
           => (pc' = "done" /\ result'.records = <<>> /\ Len(urls') = Len(pages') + 1)]_vars

C11_Witness ==
    /\ InWalk /\ pc = "done"
    /\ result.err = "decode"
    /\ result.records = <<>>
    /\ Len(all) = 2
    /\ Len(pages) = 2 /\ Len(urls) = 3

\* ------------------------------------------------------------------------
\* Properties of PricesToDataFrame
\* ------------------------------------------------------------------------
FrameDone == pc = "df_done"
WellFormed == \A i \in 1 .. Len(prices) : prices[i].Time.kind # "bad"

\* The instant a well-formed Price.Time string denotes.
InstantOf(t) == IF t.kind = "date" THEN t.v + t.v ELSE t.v

\* C12: for a price list whose times are all well formed the table has a
\* non-decreasing Dates column and six columns as long as the input.
C12_SortedSameLength ==
    (FrameDone /\ WellFormed)
        => /\ dfErr = "" /\ Len(df) = 1
           /\ \A i \in 1 .. Len(df[1].Dates) - 1 : df[1].Dates[i] <= df[1].Dates[i + 1]
           /\ Len(df[1].Dates) = Len(prices)
           /\ Len(df[1].Open) = Len(prices)
           /\ Len(df[1].Close) = Len(prices)
           /\ Len(df[1].High) = Len(prices)
           /\ Len(df[1].Low) = Len(prices)
           /\ Len(df[1].Volume) = Len(prices)

C12_Witness ==
    /\ FrameDone /\ WellFormed
    /\ Len(prices) = 3
    /\ InstantOf(prices[1].Time) > InstantOf(prices[2].Time)
    /\ InstantOf(prices[2].Time) > InstantOf(prices[3].Time)
    /\ prices[2].Time.kind = "date"
    /\ df[1].Dates = <<InstantOf(prices[3].Time), InstantOf(prices[2].Time),
                       InstantOf(prices[1].Time)>>

\* C13: the sort is stable: records with equal timestamps keep their input
\* order in the table.  Volume[i] identifies the record at row i.
C13_StableSort ==
    (FrameDone /\ WellFormed)
        => \A i, j \in 1 .. Len(prices) :
              (i < j /\ InstantOf(prices[i].Time) = InstantOf(prices[j].Time)
                     /\ prices[i].Volume # prices[j].Volume)
                  => \E k, l \in 1 .. Len(df[1].Volume) :
                        /\ k < l
                        /\ df[1].Volume[k] = prices[i].Volume
                        /\ df[1].Volume[l] = prices[j].Volume

\* C14: a record whose time matches neither format makes the function
\* return an error and no table, wherever the record is.
C14_BadTimeAborts ==
    (FrameDone /\ ~WellFormed) => (df = <<>> /\ dfErr # "")

C14_Witness ==
    /\ FrameDone
    /\ Len(prices) = 3
    /\ prices[1].Time.kind = "rfc"
    /\ prices[2].Time.kind = "date"
    /\ prices[3].Time.kind = "bad"
    /\ df = <<>> /\ dfErr = "parse"

\* C15: an empty price list gives an empty table and no error.
C15_EmptyListEmptyFrame ==
    (FrameDone /\ prices = <<>>)
        => /\ dfErr = ""
           /\ Len(df) = 1
           /\ Len(df[1].Dates) = 0 /\ Len(df[1].Open) = 0 /\ Len(df[1].Close) = 0
           /\ Len(df[1].High) = 0 /\ Len(df[1].Low) = 0 /\ Len(df[1].Volume) = 0

C15_Witness == FrameDone /\ prices = <<>> /\ Len(df) = 1 /\ dfErr = ""

\* ------------------------------------------------------------------------
\* Properties of LineItem.UnmarshalJSON
\* ------------------------------------------------------------------------
Decodes == pc = "li_done" /\ liErr = ""
PayloadKeys == {data[i].key : i \in 1 .. Len(data)}

\* The payload's value for key k: that of the last member with exactly this key.
PayloadValue(k) == data[MaxOf({i \in 1 .. Len(data) : data[i].key = k})].value

\* The string the payload gives for key k; "" if it has none or gives null.
PayloadString(k) ==
    IF k \in PayloadKeys /\ PayloadValue(k).kind = "string" THEN PayloadValue(k).s ELSE ""

BagIsRest ==
    /\ Len(li.Data) = 1
    /\ DOMAIN li.Data[1] = PayloadKeys \ {"ticker", "report_period", "period", "currency"}
    /\ DOMAIN li.Data[1] \cap {"ticker", "report_period", "period", "currency"} = {}

\* C16 as stated: the four fields hold the payload's values of the keys
\* ticker, report_period, period and currency; the bag holds every other key
\* of the payload with the payload's value, and none of the four keys.
C16_FieldsAndBag ==
    Decodes
        => /\ li.Ticker = PayloadString("ticker")
           /\ li.ReportPeriod = PayloadString("report_period")
           /\ li.Period = PayloadString("period")
           /\ li.Currency = PayloadString("currency")
           /\ BagIsRest
           /\ \A k \in DOMAIN li.Data[1] :
                 /\ li.Data[1][k].s = PayloadValue(k).s
                 /\ (li.Data[1][k].kind = "nil") = (PayloadValue(k).kind = "null")

\* The string the payload gives for a field: that of its last string member
\* whose key is the field's key in any letter case.
PayloadStringAnyCase(k) ==
    LET strs == {i \in 1 .. Len(data) : Fold(data[i].key) = k /\ data[i].value.kind = "string"}
    IN IF strs = {} THEN "" ELSE data[MaxOf(strs)].value.s

\* C16 amended: the four fields hold the payload's strings of the keys that
\* equal ticker, report_period, period and currency in any letter case; the
\* bag holds every key of the payload other than exactly those four, with the
\* payload's value, a number as the nearest float64.
C16_FieldsAnyCaseAndBag ==
    Decodes
        => /\ li.Ticker = PayloadStringAnyCase("ticker")
           /\ li.ReportPeriod = PayloadStringAnyCase("report_period")
           /\ li.Period = PayloadStringAnyCase("period")
           /\ li.Currency = PayloadStringAnyCase("currency")
           /\ BagIsRest
           /\ \A k \in DOMAIN li.Data[1] :
                 /\ li.Data[1][k].s = Float64Of(PayloadValue(k).s)
                 /\ (li.Data[1][k].kind = "nil") = (PayloadValue(k).kind = "null")

C16_Witness ==
    /\ Decodes
    /\ Len(data) = 3
    /\ data[1].key = "Ticker" /\ data[1].value.s = "EUR"
    /\ data[2].key = "currency" /\ data[2].value.s = "USD"
    /\ data[3].key = "revenue" /\ data[3].value.s = "9007199254740993"
    /\ li.Ticker = "EUR" /\ li.Currency = "USD"
    /\ DOMAIN li.Data[1] = {"Ticker", "revenue"}
    /\ li.Data[1]["revenue"].s = "9007199254740992"

\* ------------------------------------------------------------------------
\* Properties of GetMarketCap and of the non-200 answers
\* ------------------------------------------------------------------------
\* GetMarketCap is running or has returned.
InCap == caller = "GetMarketCap" \/ outer = "GetMarketCap"
CapDone == caller = "GetMarketCap" /\ pc = "done"
Endpoints == {urls[i].endpoint : i \in 1 .. Len(urls)}

\* C17: for today's date GetMarketCap requests the company facts and never
\* the financial metrics; for any other date it requests the financial
\* metrics only, and returns 0 and no error when there are no metrics.
C17_EndpointByDate ==
    InCap
        => /\ endDate = today => Endpoints \subseteq {"/company/facts/"}
           /\ endDate # today => Endpoints \subseteq {"/financial-metrics/"}
           /\ CapDone => Len(urls) = 1
           /\ (CapDone /\ endDate # today /\ result.err = "" /\ result.records = <<>>)
                 => marketCap = <<[value |-> 0, err |-> ""]>>

C17_Witness ==
    /\ CapDone
    /\ endDate # today
    /\ Endpoints = {"/financial-metrics/"}
    /\ err = "" /\ resp[1].status = 200
    /\ result.err = "" /\ result.records = <<>>
    /\ marketCap = <<[value |-> 0, err |-> ""]>>

\* The facts were requested today and the request had this outcome.
FactsFetchFailed ==
    /\ CapDone
    /\ endDate = today
    /\ err # "" \/ resp[1].status # 200

\* C18: for today's date every failure of the facts fetch, a transport error
\* as much as a non-200 status, is logged and returned as 0 with no error.
C18_FactsFailureIsZero ==
    FactsFetchFailed
        => /\ marketCap = <<[value |-> 0, err |-> ""]>>
           /\ Len(log) = 1
           /\ log[1].ticker = ticker

\* C19: for any other date the metrics are fetched with period ttm and limit
\* 10, the market cap of the first record is returned, and an error of the
\* fetch is returned as an error, never as a zero value without one.
C19_FirstMetricOrError ==
    (CapDone /\ endDate # today)
        => /\ urls = <<[endpoint |-> "/financial-metrics/", ticker |-> ticker,
                        start |-> 0, lte |-> endDate, limit |-> 10, period |-> "ttm"]>>
           /\ (err # "" \/ resp[1].status # 200) => result.err # ""
           /\ result.err # "" => marketCap = <<[value |-> 0, err |-> result.err]>>
           /\ (result.err = "" /\ result.records # <<>>)
                 => marketCap = <<[value |-> result.records[1], err |-> ""]>>

C19_Witness ==
    /\ CapDone /\ endDate # today
    /\ result.err = ""
    /\ result.records = <<8, 3>>
    /\ marketCap = <<[value |-> 8, err |-> ""]>>

\* One of the five fetch functions has returned.
FetchReturned ==
    \/ caller \in Walkers /\ pc = "done"
    \/ caller \in Fetchers /\ pc \in {"done", "metrics"}

\* C20: each of the five fetch functions, when the last response has a status
\* other than 200, returns an error and no records, and the error carries the
\* ticker, the status and the body of that response.
C20_Non200IsError ==
    (FetchReturned /\ err = "" /\ resp[1].status # 200)
        => /\ result.err = "status"
           /\ result.records = <<>>
           /\ result.ticker = ticker
           /\ result.status = resp[1].status
           /\ result.body = resp[1].body

C20_Witness ==
    /\ FetchReturned
    /\ caller = "SearchLineItems"
    /\ ticker = "MSFT"
    /\ resp = <<[status |-> 404, body |-> "Not found"]>>
    /\ result = [records |-> <<>>, err |-> "status", status |-> 404,
                 ticker |-> "MSFT", body |-> "Not found"]

\* Row i of the table is the input record at position k.
RowIs(i, k) ==
    /\ df[1].Dates[i] = InstantOf(prices[k].Time)
    /\ df[1].Open[i] = prices[k].Open
    /\ df[1].Close[i] = prices[k].Close
    /\ df[1].High[i] = prices[k].High
    /\ df[1].Low[i] = prices[k].Low
    /\ df[1].Volume[i] = prices[k].Volume

\* C30: the table is a permutation of the input rows: every row takes its six
\* values from one input record, and every input record is the source of
\* exactly one row.
C30_RowsArePermutation ==
    (FrameDone /\ WellFormed)
        => /\ Len(df) = 1
           /\ Len(df[1].Dates) = Len(prices)
           /\ \E f \in Perms[Len(prices)] : \A i \in 1 .. Len(prices) : RowIs(i, f[i])

C30_Witness ==
    /\ FrameDone /\ WellFormed
    /\ Len(prices) = 3
    /\ RowIs(1, 3) /\ RowIs(2, 1) /\ RowIs(3, 2)
    /\ InstantOf(prices[3].Time) < InstantOf(prices[1].Time)
    /\ InstantOf(prices[1].Time) < InstantOf(prices[2].Time)

\* ------------------------------------------------------------------------
\* Further properties of makeAPIRequest
\* ------------------------------------------------------------------------
\* makeAPIRequest has just returned resp and err to its caller.
JustReturned ==
    \/ caller = "makeAPIRequest" /\ pc = "done"
    \/ pc \in {"returned", "fetched", "facts"}

\* C27: makeAPIRequest returns either a response or an error, never both and
\* never neither; a call makes at most maxRetries + 1 requests, and at least
\* one when it returns a response.
C27_ResponseXorError ==
    /\ pc = "attempt" => Len(outcomes) <= maxRetries + 1
    /\ JustReturned => ((resp = <<>>) # (err = ""))
    /\ (caller = "makeAPIRequest" /\ pc = "done")
          => /\ Len(outcomes) <= maxRetries + 1
             /\ resp # <<>> => Len(outcomes) >= 1

C27_Witness ==
    /\ caller = "makeAPIRequest" /\ pc = "done"
    /\ maxRetries = 2
    /\ Len(outcomes) = 3
    /\ All429
    /\ resp # <<>> /\ err = ""

\* ------------------------------------------------------------------------
\* Further properties of the pagination walk
\* ------------------------------------------------------------------------
\* A date as it is written into a URL.
DateString(d) == ToString(d)

\* C25: in bounded mode every page request carries the caller's start date
\* as its lower-bound parameter; in unbounded mode none carries a lower bound.
C25_LowerBoundIsStartDate ==
    \A i \in 1 .. Len(urls) :
        /\ Bounded => urls[i].gte = <<DateString(startDate[1])>>
        /\ Unbounded => urls[i].gte = <<>>

\* The server kept to the cursor: no record of a page is dated after the day
\* its request ended at.
OnOrBeforeCursor ==
    \A i \in 1 .. Len(pages) : \A j \in 1 .. Len(pages[i]) :
        DatePart(pages[i][j]) <= urls[i].lte

\* C26: a bounded walk against a server that keeps to the cursor terminates,
\* also after a full page whose records share one date: every further request
\* ends at an earlier date than the one before, so no request is repeated.
C26_CursorMovesBack ==
    (Bounded /\ OnOrBeforeCursor)
        => \A i \in 1 .. Len(urls) - 1 : urls[i + 1].lte < urls[i].lte

\* ------------------------------------------------------------------------
\* Properties of the metrics request and of the financial-metrics tool
\* ------------------------------------------------------------------------
\* The request came through the financial-metrics tool.
ViaTool == caller = "FinancialMetricsTool" \/ outer = "FinancialMetricsTool"
MetricsSent == Len(urls) = 1 /\ urls[1].endpoint = "/financial-metrics/"

\* C21 as stated: a metrics request with limit 0 goes upstream with limit 10
\* and one with period "" goes upstream with period ttm, whether it was made
\* of GetFinancialMetrics or of the financial-metrics tool.
C21_DefaultsSentUpstream ==
    MetricsSent
        => /\ req.Limit = 0 => urls[1].limit = 10
           /\ req.Period = "" => urls[1].period = "ttm"

\* C21 amended: period "" goes upstream as ttm on both ways; limit 0 goes
\* upstream as 10 from GetFinancialMetrics, and through the tool a limit of 0
\* or less goes upstream as 5 and a limit above 10 as 10.
C21_DefaultsByEntry ==
    MetricsSent
        => /\ req.Period = "" => urls[1].period = "ttm"
           /\ req.Period # "" => urls[1].period = req.Period
           /\ (~ViaTool /\ req.Limit = 0) => urls[1].limit = 10
           /\ (ViaTool /\ req.Limit <= 0) => urls[1].limit = 5
           /\ (ViaTool /\ req.Limit > 10) => urls[1].limit = 10
           /\ (ViaTool /\ req.Limit > 0 /\ req.Limit <= 10) => urls[1].limit = req.Limit

C21_Witness ==
    /\ MetricsSent /\ ViaTool
    /\ pc = "done"
    /\ req.Limit = 0 /\ req.Period = ""
    /\ urls[1].limit = 5 /\ urls[1].period = "ttm"
    /\ Len(tool.out) = 1 /\ tool.out[1].Error = ""

C21_DirectWitness ==
    /\ MetricsSent /\ ~ViaTool
    /\ pc = "done"
    /\ req.Limit = 0 /\ req.Period = ""
    /\ urls[1].limit = 10 /\ urls[1].period = "ttm"

\* ------------------------------------------------------------------------
\* Properties of the 200 answer without records
\* ------------------------------------------------------------------------
\* The function returned on a 200 answer whose list was empty or missing.
ReturnedOnEmptyList ==
    /\ FetchReturned
    /\ Len(pages) > 0
    /\ pages[Len(pages)] = <<>>
    /\ listKey \in {"present", "absent"}

\* C22 as stated: each of the five fetch functions, on a 200 answer whose
\* list is empty or whose list key is absent, returns an empty collection and
\* no error.
C22_EmptyListIsEmptyResult ==
    ReturnedOnEmptyList => (result.err = "" /\ result.records = <<>>)

\* C22 amended: on such an answer the function returns no error and no
\* record of that answer: an empty collection when it is the first answer of
\* the call, and the records of the earlier pages, in order, when it ends a
\* pagination walk.
C22_EmptyListIsNoError ==
    ReturnedOnEmptyList
        => /\ result.err = ""
           /\ result.records = Concat(pages)
           /\ Len(pages) = 1 => result.records = <<>>
           /\ Len(pages) > 1 => caller \in Walkers

C22_Witness ==
    /\ ReturnedOnEmptyList
    /\ caller = "GetInsiderTrades"
    /\ Len(pages) = 2
    /\ Len(pages[1]) = 1
    /\ listKey = "absent"
    /\ result.err = ""
    /\ result.records = pages[1]

C22_FirstAnswerWitness ==
    /\ ReturnedOnEmptyList
    /\ caller = "GetPrices"
    /\ listKey = "absent"
    /\ result = NoResult

\* ------------------------------------------------------------------------
\* Properties of the key, the retry budget and the response bodies
\* ------------------------------------------------------------------------
KeyGiven == apiKey # <<>> /\ apiKey[1] # ""
KeyToUse == IF KeyGiven THEN apiKey[1] ELSE env

\* C23: every request of a fetch function carries the X-API-KEY header if
\* and only if the resolved key is not empty, the resolved key being the
\* caller's key when it is given and not empty and the environment value
\* otherwise; the header's value is that key.
C23_KeyHeader ==
    /\ Len(headers) = Len(urls)
    /\ \A i \in 1 .. Len(headers) :
        /\ headers[i] # <<>> <=> KeyToUse # ""
        /\ headers[i] # <<>> => headers[i] = <<KeyToUse>>

C23_Witness ==
    /\ apiKey = <<"">>
    /\ env = "k2"
    /\ caller = "GetCompanyNews"
    /\ Len(headers) = 2
    /\ headers[2] = <<"k2">>

C23_NoKeyWitness ==
    /\ apiKey = <<>>
    /\ env = ""
    /\ Len(headers) = 1
    /\ headers[1] = <<>>
    /\ pc = "done"

RECURSIVE SumSeq(_)
SumSeq(sq) == IF sq = <<>> THEN 0 ELSE Head(sq) + SumSeq(Tail(sq))

\* C28: a logical request of a fetch function makes at most 4 HTTP requests
\* and sleeps 60, 90 and 120 seconds at most, 270 in all; every page of a walk
\* starts again at attempt 0, so after k page requests at most 4k HTTP
\* requests have been made.
C28_RetryBudget ==
    /\ maxRetries \in {0, 3}
    /\ attempt <= 3
    /\ Len(outcomes) = attempt
    /\ Len(sleeps) = attempt
    /\ \A i \in 1 .. Len(sleeps) : sleeps[i] = 60 + 30 * (i - 1)
    /\ SumSeq(sleeps) <= 270
    /\ Len(sent[1]) <= 4 * Len(urls)
    /\ pc = "attempt" => Len(sent[1]) <= 4 * (Len(urls) - 1) + attempt
    /\ pc = "attempt" => maxRetries = 3

C28_Witness ==
    /\ caller = "GetInsiderTrades"
    /\ pc = "done"
    /\ Len(urls) = 2
    /\ Len(sent[1]) = 8
    /\ result.err = "status"
    /\ result.status = 429

C28_SleepWitness ==
    /\ caller = "GetInsiderTrades"
    /\ pc = "attempt"
    /\ Len(urls) = 2
    /\ Len(sent[1]) = 7
    /\ sleeps = <<60, 90, 120>>

\* A fetch function is not waiting on a response it received.
NoResponseInHand == pc \notin {"returned", "fetched", "facts"}

\* C29: every response received is closed exactly once before the fetch
\* function returns, on every path, and before the next request goes out, so
\* that at most one response is open at any time.
C29_ClosedOnce ==
    /\ body \in {"none", "open", "closed"}
    /\ NoResponseInHand => body # "open"
    /\ (~NoResponseInHand /\ err = "") => body = "open"
    /\ (NoResponseInHand /\ Len(sent[1]) > 0 /\ pc # "attempt" /\ err = "") => body = "closed"

C29_Witness ==
    /\ caller = "GetCompanyNews"
    /\ pc = "done"
    /\ Len(urls) = 2
    /\ Len(sent[1]) = 3
    /\ result.err = "read"
    /\ body = "closed"

\* ------------------------------------------------------------------------
\* Properties of a call made twice
\* ------------------------------------------------------------------------
\* Whether the body of the last answer could be read and decoded.
BodyFault(r) == IF r.err \in {"read", "decode"} THEN r.err ELSE ""

\* The second call has returned and the server answered it as it answered
\* the first: the same answers to the requests, the same lists in the bodies.
SameAnswers ==
    /\ first # <<>>
    /\ pc = "done"
    /\ sent[1] = first[1].sent
    /\ pages = first[1].pages
    /\ listKey = first[1].listKey
    /\ BodyFault(result) = BodyFault(first[1].result)

\* C24: a fetch function called a second time with the same arguments, on
\* the same date, against a server that answers the same, sends the same
\* requests with the same headers and returns the same records and error as
\* the first time, whatever the first call left behind.
C24_SecondCallSame ==
    SameAnswers
        => /\ urls = first[1].urls
           /\ headers = first[1].headers
           /\ result = first[1].result

C24_Witness ==
    /\ SameAnswers
    /\ caller = "GetInsiderTrades"
    /\ Len(urls) = 2
    /\ Len(pages) = 2
    /\ Len(result.records) = 2
    /\ result = first[1].result

\* ------------------------------------------------------------------------
\* Properties of SearchLineItems
\* ------------------------------------------------------------------------
Smaller(a, b) == IF a < b THEN a ELSE b

\* The limit the caller asked for, 0 standing for 10.
AskedLimit == IF req.Limit = 0 THEN 10 ELSE req.Limit

\* C31: on a 200 answer with n search results SearchLineItems returns the
\* first min(n, L) of them in server order, L being the limit asked for with
\* 0 standing for 10, and it does so for every integer limit, negative ones
\* included, without a crash.
C31_FirstResultsAnyLimit ==
    /\ pc # "panicked"
    /\ (caller = "SearchLineItems" /\ pc = "done" /\ Len(pages) = 1)
          => /\ result.err = ""
             /\ result.records = SubSeq(pages[1], 1, Smaller(Len(pages[1]), AskedLimit))

\* For the limits that are not negative the claim holds.
C31_FirstResultsNaturalLimit ==
    req.Limit >= 0
        => /\ pc # "panicked"
           /\ (caller = "SearchLineItems" /\ pc = "done" /\ Len(pages) = 1)
                 => /\ result.err = ""
                    /\ result.records = SubSeq(pages[1], 1, Smaller(Len(pages[1]), AskedLimit))

C31_TruncatedWitness ==
    /\ caller = "SearchLineItems"
    /\ pc = "done"
    /\ req.Limit = 1
    /\ pages = <<<<8, 3>>>>
    /\ result.records = <<8>>

\* ------------------------------------------------------------------------
\* Properties of the agent's tools
\* ------------------------------------------------------------------------
\* The company-news tool was invoked with a symbol and has called the fetch.
NewsToolRuns == tool.name = "CompanyNewsTool" /\ req.Symbol # "" /\ pc # "tool"

\* C32: the company-news tool, invoked with a symbol, calls the news fetch
\* once, without a start date and with a limit in 1..20 (10 for a requested
\* limit of 0 or less, 20 for one above 20); the call makes one page request
\* and never a second one.
C32_OnePageRequest ==
    NewsToolRuns
        => /\ startDate = <<>>
           /\ limit \in 1 .. 20
           /\ req.Limit <= 0 => limit = 10
           /\ req.Limit > 20 => limit = 20
           /\ req.Limit \in 1 .. 20 => limit = req.Limit
           /\ Len(urls) <= 1
           /\ pc \notin {"entry", "loop"} => Len(urls) = 1
           /\ \A i \in 1 .. Len(urls) :
               /\ urls[i].endpoint = "/news/"
               /\ urls[i].gte = <<>>
               /\ urls[i].limit = limit
               /\ urls[i].lte = endDate

C32_Witness ==
    /\ NewsToolRuns
    /\ caller = "CompanyNewsTool"
    /\ pc = "done"
    /\ req.Limit = 21
    /\ Len(urls) = 1
    /\ urls[1].limit = 20
    /\ Len(pages) = 1
    /\ Len(pages[1]) = 3
    /\ tool.out[1].Count = 3

\* A handler has returned.
HandlerDone == caller \in AgentTools /\ pc = "done"

\* What the function the tool calls returned as its error.
FetchError == IF tool.name = "MarketCapTool" THEN marketCap[1].err ELSE result.err
FetchCalled(name) == IF name = "MarketCapTool" THEN marketCap # <<>> ELSE result # NoResult

\* The output carries no data.
NoData(o, name) ==
    IF name = "MarketCapTool" THEN o.MarketCap = 0 /\ o.Currency = ""
    ELSE IF name = "CompanyNewsTool" THEN o.News = <<>> /\ o.Count = 0
    ELSE o.Metrics = <<>> /\ o.Count = 0

\* C33: the market-cap, financial-metrics and company-news tools return no
\* error to the agent.  With an empty symbol the output has Error set and the
\* fetch function is not called; when the fetch fails the output's Error is
\* the failure and the output carries no data; whether the snapshot file was
\* saved or not, the output is the same.
C33_ErrorsInOutput ==
    /\ tool.err = ""
    /\ HandlerDone
          => /\ Len(tool.out) = 1
             /\ req.Symbol = ""
                   => /\ tool.out[1].Error # ""
                      /\ NoData(tool.out[1], tool.name)
                      /\ urls = <<>>
                      /\ ~FetchCalled(tool.name)
                      /\ ~tool.saved
             /\ (req.Symbol # "" /\ FetchError # "")
                   => /\ tool.out[1].Error = FetchError
                      /\ NoData(tool.out[1], tool.name)
                      /\ ~tool.saved
             /\ (req.Symbol # "" /\ FetchError = "")
                   => /\ tool.out[1].Error = ""
                      /\ tool.name = "FinancialMetricsTool"
                            => tool.out[1] = ToolOutput(result.records, "")
                      /\ tool.name = "CompanyNewsTool"
                            => tool.out[1] = NewsOutput(result.records, "")
                      /\ tool.name = "MarketCapTool"
                            => tool.out[1] = CapOutput(marketCap[1].value, "USD", "")

C33_Witness ==
    /\ HandlerDone
    /\ tool.name = "CompanyNewsTool"
    /\ result.err = "status"
    /\ result.status = 500
    /\ tool.out[1].Error = "status"
    /\ tool.err = ""

C33_NotSavedWitness ==
    /\ HandlerDone
    /\ tool.name = "FinancialMetricsTool"
    /\ result.err = ""
    /\ Len(result.records) = 2
    /\ ~tool.saved
    /\ tool.out[1].Count = 2

\* The analysis handler has returned.
AnalysisReturned == caller = "FundamentalAnalysisTool" /\ pc = "done"

\* The details say that the field is unavailable.
Unavailable(o, field) ==
    \E i \in 1 .. Len(o.Details) :
        o.Details[i] = [on |-> field, say |-> "unavailable"]

\* points the claim gives to an optional ratio
PointsWhen(v, good, pts) == IF v # <<>> /\ good THEN pts ELSE 0

\* C34: the fundamentals score is computed from the first metrics record
\* only and lies in 0..9.  An absent ROE, debt-to-equity, operating margin or
\* current ratio adds 0 points and is reported as unavailable, a present
\* debt-to-equity of 0 adds 2 points, and an empty list gives score 0 with an
\* error message.
C34_ScoreOfFirstRecord ==
    AnalysisReturned
        => LET o == tool.out[1]
           IN  /\ tool.err = ""
               /\ o.Score \in 0 .. 9
               /\ Len(req.Metrics) = 0
                     => /\ o.Score = 0
                        /\ o.Error # ""
               /\ Len(req.Metrics) > 0
                     => LET m == req.Metrics[1]
                            rest == (IF m.PriceToEarningsRatio > 0
                                        /\ m.PriceToEarningsRatio < 2500 THEN 1 ELSE 0)
                                    + (IF m.PriceToBookRatio > 0
                                          /\ m.PriceToBookRatio < 300 THEN 1 ELSE 0)
                        IN  /\ o.Error = ""
                            /\ o.Metrics = <<m>>
                            /\ o.Score = PointsWhen(m.ReturnOnEquity,
                                                    m.ReturnOnEquity # <<>>
                                                    /\ m.ReturnOnEquity[1] > 15, 2)
                                         + PointsWhen(m.DebtToEquity,
                                                      m.DebtToEquity # <<>>
                                                      /\ m.DebtToEquity[1] < 50, 2)
                                         + PointsWhen(m.OperatingMargin,
                                                      m.OperatingMargin # <<>>
                                                      /\ m.OperatingMargin[1] > 15, 2)
                                         + PointsWhen(m.CurrentRatio,
                                                      m.CurrentRatio # <<>>
                                                      /\ m.CurrentRatio[1] > 150, 1)
                                         + rest
                            /\ \A f \in {"return_on_equity", "debt_to_equity",
                                         "operating_margin", "current_ratio"} :
                                 LET v == CASE f = "return_on_equity" -> m.ReturnOnEquity
                                            [] f = "debt_to_equity" -> m.DebtToEquity
                                            [] f = "operating_margin" -> m.OperatingMargin
                                            [] OTHER -> m.CurrentRatio
                                 IN  Unavailable(o, f) <=> v = <<>>
                            /\ m.DebtToEquity = <<0>> => o.Score >= 2

\* A zero debt-to-equity earns its 2 points next to an absent ROE, and the
\* record that follows, which would score 9, does not count.
C34_Witness ==
    /\ AnalysisReturned
    /\ Len(req.Metrics) = 2
    /\ req.Metrics[1].DebtToEquity = <<0>>
    /\ req.Metrics[1].ReturnOnEquity = <<>>
    /\ req.Metrics[1].OperatingMargin = <<0>>
    /\ req.Metrics[1].CurrentRatio = <<0>>
    /\ req.Metrics[1].PriceToEarningsRatio = 0
    /\ req.Metrics[1].PriceToBookRatio = -100
    /\ req.Metrics[2].ReturnOnEquity = <<16>>
    /\ tool.out[1].Score = 2
    /\ Unavailable(tool.out[1], "return_on_equity")

C34_EmptyWitness ==
    /\ AnalysisReturned
    /\ req.Metrics = <<>>
    /\ tool.out[1].Score = 0
    /\ tool.out[1].Error = "metrics"

C34_FullScoreWitness ==
    /\ AnalysisReturned
    /\ tool.out[1].Score = 9
====
